---- MODULE Spec2Model ----
(***************************************************************************)
(* Model of the CloudPaste virtual file system: the fs service             *)
(* (listDirectory, getFileInfo, downloadFile, createDirectory, uploadFile, *)
(* removeItem, renameItem, updateFile, batchRemoveItems) over an S3        *)
(* bucket with a directory cache, and the capability-gated FileSystem      *)
(* facade.                                                                 *)
(*                                                                         *)
(* Strings are sequences of one-character strings, so that the code's      *)
(* startsWith / endsWith / substring / lastIndexOf are computed as the     *)
(* code computes them.                                                     *)
(***************************************************************************)
EXTENDS Integers, Sequences, FiniteSets, TLC

VARIABLES
  bucket,      \* the S3 bucket: object key -> [body, ctype]
  dirCache,    \* DirectoryCache: <<mountId, subPath>> -> listing items
  files,       \* storage paths that have a row in the files table
  last,        \* the last fs-service call and its outcome
  rq,          \* the request under study: the mounts and path to resolve, the one directory path
  rs,          \* its outcome: the result of the matching loop, the history of the directory path
  fc,          \* facade: the driver (or the drivers per mount) behind the calls
  fr,          \* facade: the last facade call and its outcome
  cc,          \* concurrent listDirectory / mutation: positions and locals
  searchCache, \* SearchCache: <<query, params, principal>> -> search result
  s3Configs,   \* the s3_configs table: config id -> version of the row
  driverPool   \* MountManager driver pool: <<storageType, configId>> -> version the driver was built from

vars == <<bucket, dirCache, files, last, rq, rs, fc, fr, cc, searchCache, s3Configs, driverPool>>

-----------------------------------------------------------------------------
(* Bounds *)

\* longest file body (bytes) an upload carries
MaxLen == 2
\* most objects the bucket holds
MaxObjects == 2
\* longest object key (characters) the bucket holds
MaxKeyLen == 5

-----------------------------------------------------------------------------
(* JavaScript string primitives on sequences of characters *)

StartsWith(s, p) == Len(p) <= Len(s) /\ SubSeq(s, 1, Len(p)) = p

EndsWith(s, p) == Len(p) <= Len(s) /\ SubSeq(s, Len(s) - Len(p) + 1, Len(s)) = p

\* s.substring(i): from 0-based index i to the end
SubstringFrom(s, i) == SubSeq(s, (IF i < 0 THEN 0 ELSE i) + 1, Len(s))

\* s.substring(i, j): 0-based, j exclusive
Substring(s, i, j) == SubSeq(s, (IF i < 0 THEN 0 ELSE i) + 1, IF j > Len(s) THEN Len(s) ELSE j)

Includes(s, ch) == \E i \in 1..Len(s) : s[i] = ch

\* s.lastIndexOf(ch, from): the largest 0-based index <= from holding ch, or -1
LastIndexOfFrom(s, ch, from) ==
  LET f  == IF from < 0 THEN 0 ELSE from
      ix == {i \in 0..(Len(s) - 1) : i <= f /\ s[i + 1] = ch}
  IN  IF ix = {} THEN -1 ELSE CHOOSE i \in ix : \A j \in ix : j <= i

LastIndexOf(s, ch) == LastIndexOfFrom(s, ch, Len(s))

\* s.split("/").filter(Boolean).length: the number of non-empty segments
SegmentCount(s) ==
  Cardinality({i \in 1..Len(s) : s[i] # "/" /\ (i = 1 \/ s[i - 1] = "/")})

-----------------------------------------------------------------------------
(* Configuration: one S3 config and the mounts of the principal *)

\* the s3_configs row (root_prefix and default_folder left empty)
S3Config == [id |-> "c1", root_prefix |-> <<>>, default_folder |-> <<>>]

\* the mount the fs-service model works on (cache enabled)
Mount1 == [id |-> "m1", mount_path |-> <<"/", "m">>, cache_ttl |-> 60,
           storage_config_id |-> "c1", is_active |-> TRUE, owner |-> "admin1"]

\* a second mount on the same storage configuration
Mount2 == [id |-> "m2", mount_path |-> <<"/", "n">>, cache_ttl |-> 60,
           storage_config_id |-> "c1", is_active |-> TRUE, owner |-> "admin1"]

\* a mount on another storage configuration
Mount3 == [id |-> "m3", mount_path |-> <<"/", "o">>, cache_ttl |-> 60,
           storage_config_id |-> "c2", is_active |-> TRUE, owner |-> "admin1"]

Mounts == <<Mount1, Mount2, Mount3>>

DirectoryType == "application/x-directory"
OctetStream == "application/octet-stream"

\* file bodies: byte strings told apart by their length
Bodies == {[i \in 1..n |-> 7] : n \in 1..MaxLen}

-----------------------------------------------------------------------------
(* The S3 object store *)

\* HeadObject / GetObject: an empty key is rejected by the client, a missing key is 404
S3Head(b, key) ==
  IF key = <<>> THEN "error" ELSE IF key \in DOMAIN b THEN "ok" ELSE "404"

S3Put(b, key, obj) == [k \in (DOMAIN b) \cup {key} |-> IF k = key THEN obj ELSE b[k]]

\* DeleteObject succeeds whether or not the key exists
S3Delete(b, key) == [k \in (DOMAIN b) \ {key} |-> b[k]]

\* CopyObject: 404 for a missing source, InvalidRequest for a copy onto itself
S3CopyStatus(b, src, dst) ==
  IF src = <<>> \/ dst = <<>> THEN "error"
  ELSE IF src \notin DOMAIN b THEN "404"
  ELSE IF src = dst THEN "error"
  ELSE "ok"

S3Copy(b, src, dst) == S3Put(b, dst, b[src])

\* ListObjectsV2 without delimiter: the keys under a prefix
S3List(b, prefix) == {k \in DOMAIN b : StartsWith(k, prefix)}

-----------------------------------------------------------------------------
(* webdavUtils and DirectoryCache *)

\* findMountPointByPath: longest mount path that equals the path or prefixes it
MatchingMounts(ms, path) ==
  {i \in 1..Len(ms) :
     ms[i].is_active /\
     (path = ms[i].mount_path \/ StartsWith(path, ms[i].mount_path \o <<"/">>))}

findMountPointByPath(ms, path0) ==
  LET path == IF StartsWith(path0, <<"/">>) THEN path0 ELSE <<"/">> \o path0
      cand == MatchingMounts(ms, path)
  IN  IF path = <<"/">> THEN [error |-> "Forbidden"]
      ELSE IF cand = {} THEN [error |-> "NotFound"]
      ELSE LET i   == CHOOSE i \in cand :
                        \A j \in cand : Len(ms[j].mount_path) < Len(ms[i].mount_path)
                                        \/ (Len(ms[j].mount_path) = Len(ms[i].mount_path) /\ i <= j)
               rem == SubstringFrom(path, Len(ms[i].mount_path))
           IN  [error |-> "none", mount |-> ms[i],
                subPath |-> IF StartsWith(rem, <<"/">>) THEN rem ELSE <<"/">> \o rem]

\* a config prefix component, normalised to end with "/"
PrefixPart(p) == IF p = <<>> THEN <<>> ELSE IF EndsWith(p, <<"/">>) THEN p ELSE p \o <<"/">>

\* normalizeS3SubPath: rootPrefix + defaultFolder + the sub-path without its leading "/"
normalizeS3SubPath(subPath, s3Config, asDirectory) ==
  LET rel  == IF StartsWith(subPath, <<"/">>) THEN SubstringFrom(subPath, 1) ELSE subPath
      rel2 == IF asDirectory /\ rel # <<>> /\ ~EndsWith(rel, <<"/">>) THEN rel \o <<"/">> ELSE rel
  IN  PrefixPart(s3Config.root_prefix) \o PrefixPart(s3Config.default_folder) \o rel2

\* checkDirectoryExists: the placeholder object exists, or some key lies under the prefix
checkDirectoryExists(b, dirPath) ==
  LET normalizedPath == IF EndsWith(dirPath, <<"/">>) THEN dirPath ELSE dirPath \o <<"/">>
  IN  S3Head(b, normalizedPath) = "ok" \/ S3List(b, normalizedPath) # {}

\* DirectoryCache.invalidate
CacheInvalidate(c, mountId, subPath) ==
  [k \in (DOMAIN c) \ {<<mountId, subPath>>} |-> c[k]]

\* the directory holding a sub-path ("/a/b/" -> "/a/", "/a/x" -> "/a/")
ParentDir(p) ==
  IF EndsWith(p, <<"/">>) THEN Substring(p, 0, LastIndexOfFrom(p, "/", Len(p) - 2) + 1)
  ELSE Substring(p, 0, LastIndexOf(p, "/") + 1)

\* the sub-paths from p up to "/"
RECURSIVE AncestorChain(_)
AncestorChain(p) ==
  IF p = <<>> \/ p = <<"/">> THEN {<<"/">>}
  ELSE {p} \cup AncestorChain(ParentDir(p))

\* DirectoryCache.invalidatePathAndAncestors
CacheInvalidatePathAndAncestors(c, mountId, subPath) ==
  [k \in {k \in DOMAIN c : ~(k[1] = mountId /\ k[2] \in AncestorChain(subPath))} |-> c[k]]

\* DirectoryCache.set
CacheSet(c, mountId, subPath, listing) ==
  [k \in (DOMAIN c) \cup {<<mountId, subPath>>} |->
     IF k = <<mountId, subPath>> THEN listing ELSE c[k]]

-----------------------------------------------------------------------------
(* fs service: reads *)

\* normalizePath
normalizePath(path, isDirectory) ==
  LET p1 == IF StartsWith(path, <<"/">>) THEN path ELSE <<"/">> \o path
  IN  IF isDirectory /\ ~EndsWith(p1, <<"/">>) THEN p1 \o <<"/">> ELSE p1

\* the prefix getS3DirectoryListing lists: rootPrefix + defaultFolder + s3SubPath, "/"-terminated
ListingPrefix(subPath, s3Config) ==
  LET s3SubPath     == normalizeS3SubPath(subPath, s3Config, TRUE)
      rootPrefix    == PrefixPart(s3Config.root_prefix)
      defaultFolder == PrefixPart(s3Config.default_folder)
      p1 == rootPrefix \o (IF defaultFolder # <<>> /\ defaultFolder # <<"/">> THEN defaultFolder ELSE <<>>)
      p2 == p1 \o (IF s3SubPath # <<>> /\ s3SubPath # <<"/">> THEN s3SubPath ELSE <<>>)
  IN  IF p2 # <<>> /\ ~EndsWith(p2, <<"/">>) THEN p2 \o <<"/">> ELSE p2

\* the first "/" of s at or after 1-based position 1, or 0
FirstSlash(s) ==
  IF Includes(s, "/") THEN CHOOSE i \in 1..Len(s) : s[i] = "/" /\ \A j \in 1..(i - 1) : s[j] # "/"
  ELSE 0

\* the items of one ListObjectsV2 call with Delimiter "/": CommonPrefixes as
\* directories, Contents as files (placeholders and nested keys skipped)
ListedCommonPrefixes(b, fullPrefix) ==
  {fullPrefix \o SubSeq(SubstringFrom(k, Len(fullPrefix)), 1, FirstSlash(SubstringFrom(k, Len(fullPrefix)))) :
     k \in {k \in S3List(b, fullPrefix) : Includes(SubstringFrom(k, Len(fullPrefix)), "/")}}

ListedContents(b, fullPrefix) ==
  {k \in S3List(b, fullPrefix) : ~Includes(SubstringFrom(k, Len(fullPrefix)), "/")}

\* the name of a common prefix relative to the listed directory, without its trailing "/"
DirEntryName(cp, s3SubPath) ==
  LET rel == SubstringFrom(cp, Len(s3SubPath))
  IN  IF EndsWith(rel, <<"/">>) THEN SubSeq(rel, 1, Len(rel) - 1) ELSE rel

ListingItems(b, subPath, s3Config) ==
  LET fullPrefix == ListingPrefix(subPath, s3Config)
      s3SubPath  == normalizeS3SubPath(subPath, s3Config, TRUE)
      dirs  == {[name |-> DirEntryName(cp, s3SubPath), isDirectory |-> TRUE, size |-> 0] :
                  cp \in {cp \in ListedCommonPrefixes(b, fullPrefix) : DirEntryName(cp, s3SubPath) # <<>>}}
      fls   == {[name |-> SubstringFrom(k, Len(fullPrefix)), isDirectory |-> FALSE, size |-> Len(b[k].body)] :
                  k \in {k \in ListedContents(b, fullPrefix) :
                           k # fullPrefix /\ k # fullPrefix \o <<"/">> /\ SubstringFrom(k, Len(fullPrefix)) # <<>>}}
  IN  dirs \cup fls

\* getS3DirectoryListing: cache hit, or list S3 and fill the cache
getS3DirectoryListing(b, c, mount, subPath) ==
  IF mount.cache_ttl > 0 /\ <<mount.id, subPath>> \in DOMAIN c
  THEN [items |-> c[<<mount.id, subPath>>], cache |-> c, hit |-> TRUE]
  ELSE LET items == ListingItems(b, subPath, S3Config)
       IN  [items |-> items,
            cache |-> IF mount.cache_ttl > 0 THEN CacheSet(c, mount.id, subPath, items) ELSE c,
            hit   |-> FALSE]

\* listDirectory's matching loop over the mounts sorted by mount_path length, longest first
RECURSIVE InsertByLen(_, _)
InsertByLen(m, sorted) ==
  IF sorted = <<>> THEN <<m>>
  ELSE IF Len(Head(sorted).mount_path) >= Len(m.mount_path) THEN <<Head(sorted)>> \o InsertByLen(m, Tail(sorted))
  ELSE <<m>> \o sorted

\* the mounts left in the order the repository returned them
UnsortedMounts(ms) == ms

RECURSIVE SortMounts(_)
SortMounts(ms) ==
  IF ms = <<>> THEN <<>> ELSE InsertByLen(ms[Len(ms)], SortMounts(SubSeq(ms, 1, Len(ms) - 1)))

EffectiveMountPath(m) ==
  IF StartsWith(m.mount_path, <<"/">>) THEN m.mount_path ELSE <<"/">> \o m.mount_path

RECURSIVE MatchLoop(_, _)
MatchLoop(ms, path) ==
  IF ms = <<>> THEN [isVirtualPath |-> TRUE]
  ELSE LET mountPath == EffectiveMountPath(Head(ms))
       IN  IF path = mountPath \o <<"/">> \/ StartsWith(path, mountPath \o <<"/">>)
           THEN LET sub == SubstringFrom(path, Len(mountPath))
                IN  [isVirtualPath |-> FALSE, matchingMount |-> Head(ms),
                     subPath |-> IF StartsWith(sub, <<"/">>) THEN sub ELSE <<"/">> \o sub]
           ELSE MatchLoop(Tail(ms), path)

\* relativePath.split("/")[0]: the part before the first "/"
FirstDir(relativePath) ==
  IF \E i \in 1..Len(relativePath) : relativePath[i] = "/"
  THEN SubSeq(relativePath, 1,
              (CHOOSE i \in 1..Len(relativePath) :
                 /\ relativePath[i] = "/"
                 /\ \A j \in 1..(i - 1) : relativePath[j] # "/") - 1)
  ELSE relativePath

\* a Set's add: the element goes last unless it is already there
SetAdd(directories, dir) ==
  IF \E i \in 1..Len(directories) : directories[i] = dir THEN directories
  ELSE Append(directories, dir)

\* getVirtualDirectoryListing's loop over the mounts
RECURSIVE VirtualLoop(_, _, _, _)
VirtualLoop(ms, path, directories, mountEntries) ==
  IF ms = <<>> THEN [directories |-> directories, mountEntries |-> mountEntries]
  ELSE LET mountPath == EffectiveMountPath(Head(ms))
       IN  IF mountPath \o <<"/">> = path \/ mountPath = path
           THEN VirtualLoop(Tail(ms), path, directories,
                            Append(mountEntries, [path |-> mountPath, isMount |-> TRUE,
                                                  mount_id |-> Head(ms).id]))
           ELSE IF StartsWith(mountPath, path) /\ FirstDir(SubstringFrom(mountPath, Len(path))) # <<>>
           THEN VirtualLoop(Tail(ms), path,
                            SetAdd(directories, FirstDir(SubstringFrom(mountPath, Len(path)))),
                            mountEntries)
           ELSE VirtualLoop(Tail(ms), path, directories, mountEntries)

\* getVirtualDirectoryListing: the first-level directories leading to mounts, then the mounts
getVirtualDirectoryListing(ms, path0) ==
  LET path == normalizePath(path0, TRUE)
      loop == VirtualLoop(ms, path, <<>>, <<>>)
  IN  [status |-> "ok", path |-> path, isRoot |-> (path = <<"/">>), isVirtual |-> TRUE,
       items |-> [i \in 1..Len(loop.directories) |->
                    [path |-> path \o loop.directories[i] \o <<"/">>, isMount |-> FALSE,
                     mount_id |-> "none"]]
                 \o loop.mountEntries]

\* listDirectory up to the dispatch: normalise, sort, match
ResolveForList(ms, path0) == MatchLoop(SortMounts(ms), normalizePath(path0, TRUE))

\* listDirectory for a principal's mounts, the S3 listing left to the mount's driver
listDirectoryOf(ms, path0) ==
  LET r == ResolveForList(ms, path0)
  IN  IF r.isVirtualPath THEN getVirtualDirectoryListing(SortMounts(ms), normalizePath(path0, TRUE))
      ELSE [status |-> "ok", path |-> normalizePath(path0, TRUE), isVirtual |-> FALSE,
            mount_id |-> r.matchingMount.id, subPath |-> r.subPath]

\* listDirectory on a mounted path
listDirectory(b, c, path) ==
  LET r == ResolveForList(Mounts, path)
  IN  IF r.isVirtualPath
      THEN [status |-> "virtual", cache |-> c,
            items |-> getVirtualDirectoryListing(SortMounts(Mounts), path).items]
      ELSE LET l == getS3DirectoryListing(b, c, r.matchingMount, r.subPath)
           IN  [status |-> "ok", cache |-> l.cache, items |-> l.items]

\* how the provider answers HeadObject: as S3 does, or with 403 / UnknownError on every key
HeadModes == {"plain", "403", "UnknownError"}

PlainProvider == [head |-> "plain"]

\* HeadObject as sent to the provider; an empty key is refused by the client before sending
ProviderHead(provider, b, key) ==
  IF key = <<>> THEN "error"
  ELSE IF provider.head = "plain" THEN S3Head(b, key)
  ELSE provider.head

\* the answer built from a HEAD or GET response
InfoResult(b, s3SubPath) ==
  [status |-> "ok",
   isDirectory |-> EndsWith(s3SubPath, <<"/">>) \/ b[s3SubPath].ctype = DirectoryType,
   size |-> Len(b[s3SubPath].body)]

\* the inner catch: 403 / UnknownError go on with a GET, every other error is rethrown
HeadFallback(b, s3SubPath, head) ==
  IF head \in {"403", "UnknownError"} THEN S3Head(b, s3SubPath) ELSE head

\* the outer catch of getFileInfo: a 404 is settled by a one-key listing of the prefix
InfoCatch(b, s3SubPath, error) ==
  LET dirPath == IF EndsWith(s3SubPath, <<"/">>) THEN s3SubPath ELSE s3SubPath \o <<"/">>
  IN  IF error = "404"
      THEN IF S3List(b, dirPath) # {}
           THEN [status |-> "ok", isDirectory |-> TRUE, size |-> 0]
           ELSE [status |-> "NotFound"]
      ELSE IF error = "403" THEN [status |-> "Forbidden"]
      ELSE [status |-> "Internal"]

\* getFileInfo: HEAD (GET when HEAD is refused), then on 404 a one-key listing of key + "/"
getFileInfo(b, path, provider) ==
  LET mr == findMountPointByPath(Mounts, path)
  IN  IF mr.error # "none" THEN [status |-> mr.error]
      ELSE LET s3SubPath == normalizeS3SubPath(mr.subPath, S3Config, FALSE)
               head      == ProviderHead(provider, b, s3SubPath)
               answer    == HeadFallback(b, s3SubPath, head)
           IN  IF answer = "ok" THEN InfoResult(b, s3SubPath)
               ELSE InfoCatch(b, s3SubPath, answer)

\* downloadFile: GET the object at the file key of the path
downloadFile(b, path) ==
  LET mr == findMountPointByPath(Mounts, path)
  IN  IF mr.error # "none" THEN [status |-> mr.error]
      ELSE LET s3SubPath == normalizeS3SubPath(mr.subPath, S3Config, FALSE)
               get       == S3Head(b, s3SubPath)
           IN  IF get = "ok" THEN [status |-> "ok", key |-> s3SubPath, body |-> b[s3SubPath].body]
               ELSE IF get = "404" THEN [status |-> "NotFound", key |-> s3SubPath]
               ELSE [status |-> "Internal", key |-> s3SubPath]

-----------------------------------------------------------------------------
(* fs service: mutations.  Each returns [status, bucket, cache, files, key] *)

Outcome(st, b, c, f, key) == [status |-> st, bucket |-> b, cache |-> c, files |-> f, key |-> key]

\* createDirectory: the cache entries dropped after the placeholder is written
CreateDirectoryInvalidate(c, mountId, subPath) ==
  IF subPath # <<"/">>
  THEN CacheInvalidatePathAndAncestors(c, mountId,
         Substring(subPath, 0, LastIndexOfFrom(subPath, "/", Len(subPath) - 2) + 1))
  ELSE c

\* a probe that never finds the target
ProbeAlwaysMissing(b, key) == "404"

\* createDirectory: the HEAD probe of the target key decides between Conflict and PUT
CreateDirectoryProbe(b, key) == S3Head(b, key)

createDirectory(b, c, f, path0) ==
  LET path == normalizePath(path0, TRUE)
      mr   == findMountPointByPath(Mounts, path)
  IN  IF mr.error # "none" THEN Outcome(mr.error, b, c, f, <<>>)
      ELSE
      LET s3SubPath  == normalizeS3SubPath(mr.subPath, S3Config, TRUE)
          parentPath == Substring(s3SubPath, 0, LastIndexOfFrom(s3SubPath, "/", Len(s3SubPath) - 2) + 1)
          probe      == CreateDirectoryProbe(b, s3SubPath)
      IN  IF SegmentCount(s3SubPath) > 1 /\ ~checkDirectoryExists(b, parentPath)
          THEN Outcome("Conflict", b, c, f, s3SubPath)
          ELSE IF probe = "ok" THEN Outcome("Conflict", b, c, f, s3SubPath)
          ELSE IF probe = "404"
          THEN Outcome("ok", S3Put(b, s3SubPath, [body |-> <<>>, ctype |-> DirectoryType]),
                       CreateDirectoryInvalidate(c, mr.mount.id, mr.subPath), f, s3SubPath)
          ELSE Outcome("Internal", b, c, f, s3SubPath)

\* file.name || "unnamed_file"
UnnamedFile == <<"unnamed_file">>

\* uploadFile (direct): the object key written
UploadKey(subPath, file) ==
  LET s3SubPath == normalizeS3SubPath(subPath, S3Config, TRUE)
      fileName  == IF file.name # <<>> THEN file.name ELSE UnnamedFile
  IN  IF s3SubPath # <<>>
      THEN (IF EndsWith(s3SubPath, <<"/">>) THEN s3SubPath ELSE s3SubPath \o <<"/">>) \o fileName
      ELSE S3Config.root_prefix \o S3Config.default_folder \o fileName

\* an upload that drops only the root listing of the mount
UploadInvalidateRootOnly(c, mountId, subPath) == CacheInvalidate(c, mountId, <<"/">>)

\* uploadFile (direct): the cache entries dropped after the PUT and the file record
UploadInvalidate(c, mountId, subPath) ==
  IF subPath # <<"/">> /\ Includes(subPath, "/")
  THEN CacheInvalidatePathAndAncestors(c, mountId, Substring(subPath, 0, LastIndexOf(subPath, "/") + 1))
  ELSE CacheInvalidate(c, mountId, <<"/">>)

\* an upload that takes every parent directory to exist
ParentAlwaysExists(b, finalS3Path) == TRUE

\* uploadFile: the parent directory of the key exists, or the key has no parent
UploadParentExists(b, finalS3Path) ==
  Includes(finalS3Path, "/")
    => checkDirectoryExists(b, Substring(finalS3Path, 0, LastIndexOf(finalS3Path, "/") + 1))

uploadFile(b, c, f, path, file) ==
  LET mr == findMountPointByPath(Mounts, path)
  IN  IF mr.error # "none" THEN Outcome(mr.error, b, c, f, <<>>)
      ELSE
      LET finalS3Path == UploadKey(mr.subPath, file)
      IN  IF ~UploadParentExists(b, finalS3Path)
          THEN Outcome("Conflict", b, c, f, finalS3Path)
          ELSE Outcome("ok",
                       S3Put(b, finalS3Path, [body |-> file.body, ctype |-> file.type]),
                       UploadInvalidate(c, mr.mount.id, mr.subPath),
                       f \cup {finalS3Path}, finalS3Path)

\* removeItem / renameItem: the parent chain dropped for one end of the operation
ParentChainInvalidate(c, mountId, subPath, isDirectory) ==
  IF subPath # <<"/">> /\ Includes(subPath, "/")
  THEN CacheInvalidatePathAndAncestors(c, mountId,
         Substring(subPath, 0,
                   LastIndexOfFrom(subPath, "/", IF isDirectory THEN Len(subPath) - 2 ELSE Len(subPath) - 1) + 1))
  ELSE IF ~isDirectory THEN CacheInvalidate(c, mountId, <<"/">>)
  ELSE c

\* deleteDirectory: delete every key listed under the prefix; NotFound when none was seen
\* code points of the characters keys are made of (ListObjectsV2 returns keys in byte order)
CharRank(ch) ==
  CASE ch = "/" -> 47 [] ch = "a" -> 97 [] ch = "b" -> 98 [] ch = "e" -> 101 [] ch = "m" -> 109
    [] ch = "n" -> 110 [] ch = "q" -> 113 [] ch = "x" -> 120 [] ch = "y" -> 121 [] OTHER -> 127

RECURSIVE LexLess(_, _)
LexLess(s, t) ==
  IF t = <<>> THEN FALSE
  ELSE IF s = <<>> THEN TRUE
  ELSE IF Head(s) # Head(t) THEN CharRank(Head(s)) < CharRank(Head(t))
  ELSE LexLess(Tail(s), Tail(t))

MinKey(keys) == CHOOSE k \in keys : \A j \in keys \ {k} : LexLess(k, j)

\* the page size of ListObjectsV2 when the request names no MaxKeys
DefaultMaxKeys == 1000

\* the n smallest keys of a set, in the order ListObjectsV2 returns them
RECURSIVE FirstKeys(_, _)
FirstKeys(keys, n) ==
  IF n = 0 \/ keys = {} THEN {}
  ELSE {MinKey(keys)} \cup FirstKeys(keys \ {MinKey(keys)}, n - 1)

\* one page of ListObjectsV2: the keys under the prefix after the continuation token
S3ListPage(b, prefix, token, pageSize) ==
  LET rest == {k \in S3List(b, prefix) : ~token.set \/ LexLess(token.after, k)}
      page == FirstKeys(rest, pageSize)
  IN  [Contents |-> page, IsTruncated |-> (rest # page),
       NextContinuationToken |-> [set |-> TRUE, after |-> IF page = {} THEN <<>>
                                                           ELSE CHOOSE k \in page : \A j \in page \ {k} : LexLess(j, k)]]

\* a scan that stops after its first page
DeleteFirstPageOnly(b, prefix, token, pageSize, deletedFiles) ==
  [bucket |-> [k \in (DOMAIN b) \ S3ListPage(b, prefix, token, pageSize).Contents |-> b[k]],
   deletedFiles |-> S3ListPage(b, prefix, token, pageSize).Contents]

\* deleteDirectory's do-while: list a page, delete its objects, go on while the listing is truncated
RECURSIVE DeleteScan(_, _, _, _, _)
DeleteScan(b, prefix, token, pageSize, deletedFiles) ==
  LET listResponse == S3ListPage(b, prefix, token, pageSize)
      after        == [k \in (DOMAIN b) \ listResponse.Contents |-> b[k]]
  IN  IF listResponse.IsTruncated
      THEN DeleteScan(after, prefix, listResponse.NextContinuationToken, pageSize,
                      deletedFiles \cup listResponse.Contents)
      ELSE [bucket |-> after, deletedFiles |-> deletedFiles \cup listResponse.Contents]

deleteDirectory(b, f, dirPath, pageSize) ==
  LET prefix == IF EndsWith(dirPath, <<"/">>) THEN dirPath ELSE dirPath \o <<"/">>
      scan   == DeleteScan(b, prefix, [set |-> FALSE, after |-> <<>>], pageSize, {})
  IN  IF scan.deletedFiles = {} THEN [status |-> "NotFound", bucket |-> b, files |-> f]
      ELSE [status |-> "ok", bucket |-> scan.bucket, files |-> f \ scan.deletedFiles]

removeItem(b, c, f, path, pageSize) ==
  LET mr == findMountPointByPath(Mounts, path)
  IN  IF mr.error # "none" THEN Outcome(mr.error, b, c, f, <<>>)
      ELSE
      LET isDirectory == EndsWith(path, <<"/">>)
          s3SubPath   == normalizeS3SubPath(mr.subPath, S3Config, isDirectory)
          dd          == deleteDirectory(b, f, s3SubPath, pageSize)
      IN  IF isDirectory
          THEN IF dd.status # "ok" THEN Outcome(dd.status, b, c, f, s3SubPath)
               ELSE Outcome("ok", dd.bucket,
                            ParentChainInvalidate(CacheInvalidate(c, mr.mount.id, mr.subPath),
                                                  mr.mount.id, mr.subPath, TRUE),
                            dd.files \ {s3SubPath}, s3SubPath)
          ELSE IF s3SubPath = <<>> THEN Outcome("Internal", b, c, f, s3SubPath)
               ELSE Outcome("ok", S3Delete(b, s3SubPath),
                            ParentChainInvalidate(c, mr.mount.id, mr.subPath, FALSE),
                            f \ {s3SubPath}, s3SubPath)

\* renameDirectory's loop over the listed keys: CopyObject to the rewritten key, then DeleteObject
RECURSIVE RenameLoop(_, _, _, _)
RenameLoop(b, keys, oldPrefix, newPrefix) ==
  IF keys = {} THEN [status |-> "ok", bucket |-> b]
  ELSE LET sourceKey == MinKey(keys)
           targetKey == newPrefix \o SubstringFrom(sourceKey, Len(oldPrefix))
       IN  IF S3CopyStatus(b, sourceKey, targetKey) # "ok"
           THEN [status |-> "Internal", bucket |-> b]
           ELSE RenameLoop(S3Delete(S3Copy(b, sourceKey, targetKey), sourceKey),
                           keys \ {sourceKey}, oldPrefix, newPrefix)

renameDirectory(b, oldPath, newPath) ==
  LET oldPrefix == IF EndsWith(oldPath, <<"/">>) THEN oldPath ELSE oldPath \o <<"/">>
      newPrefix == IF EndsWith(newPath, <<"/">>) THEN newPath ELSE newPath \o <<"/">>
      keys      == S3List(b, oldPrefix)
  IN  IF keys = {} THEN [status |-> "NotFound", bucket |-> b]
      ELSE RenameLoop(b, keys, oldPrefix, newPrefix)

\* renameItem's destination probe: HEAD the new key and throw Conflict when it answers;
\* the catch around it rethrows only errors that carry $metadata with a status other than 404
RenameDestinationProbe(b, key) ==
  LET head  == S3Head(b, key)
      error == IF head = "ok" THEN [hasMetadata |-> FALSE, httpStatusCode |-> 409]
               ELSE IF head = "404" THEN [hasMetadata |-> TRUE, httpStatusCode |-> 404]
               ELSE [hasMetadata |-> FALSE, httpStatusCode |-> 0]
  IN  IF error.hasMetadata /\ error.httpStatusCode # 404 THEN "throw" ELSE "proceed"

\* renameItem: the parent chains of the old and of the new path are dropped
RenameInvalidate(c, mountId, oldSubPath, newSubPath, isDirectory) ==
  ParentChainInvalidate(ParentChainInvalidate(c, mountId, oldSubPath, isDirectory),
                        mountId, newSubPath, isDirectory)

\* a file rename that copies and leaves the source in place
RenameFileCopyOnly(b, s3OldPath, s3NewPath) == S3Copy(b, s3OldPath, s3NewPath)

\* renameItem on a file: CopyObject to the new key, then DeleteObject of the old key
RenameFileMove(b, s3OldPath, s3NewPath) == S3Delete(S3Copy(b, s3OldPath, s3NewPath), s3OldPath)

renameItem(b, c, f, oldPath, newPath) ==
  LET oldIsDirectory == EndsWith(oldPath, <<"/">>)
      newIsDirectory == EndsWith(newPath, <<"/">>)
      oldMountResult == findMountPointByPath(Mounts, oldPath)
      newMountResult == findMountPointByPath(Mounts, newPath)
  IN  IF oldIsDirectory # newIsDirectory THEN Outcome("BadRequest", b, c, f, <<>>)
      ELSE IF oldMountResult.error # "none" THEN Outcome(oldMountResult.error, b, c, f, <<>>)
      ELSE IF newMountResult.error # "none" THEN Outcome(newMountResult.error, b, c, f, <<>>)
      ELSE IF oldMountResult.mount.id # newMountResult.mount.id THEN Outcome("BadRequest", b, c, f, <<>>)
      ELSE
      LET mount      == oldMountResult.mount
          oldSubPath == oldMountResult.subPath
          newSubPath == newMountResult.subPath
          s3OldPath  == normalizeS3SubPath(oldSubPath, S3Config, oldIsDirectory)
          s3NewPath  == normalizeS3SubPath(newSubPath, S3Config, newIsDirectory)
          parentPath == Substring(s3NewPath, 0, LastIndexOf(s3NewPath, "/") + 1)
          rd         == renameDirectory(b, s3OldPath, s3NewPath)
          cp         == S3CopyStatus(b, s3OldPath, s3NewPath)
      IN  IF Includes(s3NewPath, "/") /\ ~checkDirectoryExists(b, parentPath)
          THEN Outcome("Conflict", b, c, f, s3NewPath)
          ELSE IF RenameDestinationProbe(b, s3NewPath) = "throw"
          THEN Outcome("Internal", b, c, f, s3NewPath)
          ELSE IF oldIsDirectory
          THEN IF rd.status # "ok" THEN Outcome(rd.status, rd.bucket, c, f, s3NewPath)
               ELSE Outcome("ok", rd.bucket,
                            RenameInvalidate(CacheInvalidate(CacheInvalidate(c, mount.id, oldSubPath),
                                                             mount.id, newSubPath),
                                             mount.id, oldSubPath, newSubPath, TRUE),
                            f, s3NewPath)
          ELSE IF cp # "ok" THEN Outcome("Internal", b, c, f, s3NewPath)
               ELSE Outcome("ok", RenameFileMove(b, s3OldPath, s3NewPath),
                            RenameInvalidate(c, mount.id, oldSubPath, newSubPath, FALSE), f, s3NewPath)

\* getMimeTypeAndGroupFromFile: the MIME group of a file name
ExecutableNames == {<<"e">>}
MimeGroupOf(fileName) == IF fileName \in ExecutableNames THEN "EXECUTABLE" ELSE "OTHER"

\* updateFile: the cache entries dropped after the PUT
UpdateInvalidate(c, mount, subPath) ==
  IF mount.cache_ttl > 0 /\ subPath # <<"/">> /\ Includes(subPath, "/")
  THEN CacheInvalidatePathAndAncestors(c, mount.id, Substring(subPath, 0, LastIndexOf(subPath, "/") + 1))
  ELSE c

updateFile(b, c, f, path, content) ==
  LET mr == findMountPointByPath(Mounts, path)
  IN  IF mr.error # "none" THEN Outcome(mr.error, b, c, f, <<>>)
      ELSE
      LET s3SubPath == normalizeS3SubPath(mr.subPath, S3Config, FALSE)
          fileName  == SubstringFrom(path, LastIndexOf(path, "/") + 1)
          ctype     == IF S3Head(b, s3SubPath) = "ok" THEN b[s3SubPath].ctype ELSE OctetStream
      IN  IF MimeGroupOf(fileName) = "EXECUTABLE" THEN Outcome("Forbidden", b, c, f, s3SubPath)
          ELSE IF s3SubPath = <<>> THEN Outcome("Internal", b, c, f, s3SubPath)
          ELSE Outcome("ok", S3Put(b, s3SubPath, [body |-> content, ctype |-> ctype]),
                       UpdateInvalidate(c, mr.mount, mr.subPath), f, s3SubPath)

-----------------------------------------------------------------------------
(* Specification Spec: the fs service, one call after another *)

EmptyMap == [k \in {} |-> 0]

\* the rows of s3_configs before any change: one config at its first version
StoredConfigs == [id \in {"c1"} |-> 1]

\* logical paths the calls are made with
DirPaths  == {<<"/", "m", "/">>, <<"/", "m", "/", "a", "/">>, <<"/", "m", "/", "a", "/", "b", "/">>}
FilePaths == {<<"/", "m", "/", "x">>, <<"/", "m", "/", "a", "/", "x">>}
OddPaths  == {<<"/", "q", "/", "x">>}
Paths     == DirPaths \cup FilePaths \cup OddPaths

FileNames == {<<"x">>}
Uploads   == {[name |-> n, body |-> d, type |-> OctetStream] : n \in FileNames, d \in Bodies}

\* the bucket when the mount is attached: empty, or filled by another tool (no placeholders)
InitBuckets ==
  {EmptyMap,
   [k \in {<<"a", "/", "b", "/", "x">>} |-> [body |-> <<7>>, ctype |-> OctetStream]]}

\* the directories and one file path an upload is sent to
UploadPaths == DirPaths \cup {<<"/", "m", "/", "a", "/", "x">>} \cup OddPaths

\* (old, new) pairs of renameItem: files, directories, one pair of mixed kinds, one unmounted
RenamePairs ==
  (FilePaths \X FilePaths) \cup (DirPaths \X DirPaths)
    \cup {<<<<"/", "m", "/", "x">>, <<"/", "m", "/", "a", "/">>>>,
          <<<<"/", "q", "/", "x">>, <<"/", "m", "/", "x">>>>}

Idle == [op |-> "none"]

Init ==
  /\ bucket \in InitBuckets
  /\ dirCache = EmptyMap
  /\ files = {}
  /\ last = Idle
  /\ rq = Idle /\ rs = Idle /\ fc = Idle /\ fr = Idle /\ cc = Idle /\ searchCache = EmptyMap
  /\ s3Configs = StoredConfigs /\ driverPool = EmptyMap

Apply(res) ==
  /\ Cardinality(DOMAIN res.bucket) <= MaxObjects
  /\ \A k \in DOMAIN res.bucket : Len(k) <= MaxKeyLen
  /\ bucket' = res.bucket
  /\ dirCache' = res.cache
  /\ files' = res.files

\* a listDirectory call on one of the paths ps
ListDirectoryOn(ps) ==
  \E p \in ps :
    \E res \in {listDirectory(bucket, dirCache, p)} :
      /\ dirCache' = res.cache
      /\ last' = [op |-> "listDirectory", path |-> p, status |-> res.status]
      /\ UNCHANGED <<bucket, files, rq, rs, fc, s3Configs, driverPool, fr, cc, searchCache>>

CreateDirectoryCall(ps) ==
  \E p \in ps :
    \E res \in {createDirectory(bucket, dirCache, files, p)} :
      /\ Apply(res)
      /\ last' = [op |-> "createDirectory", path |-> p, status |-> res.status, key |-> res.key,
                  dropped |-> (DOMAIN dirCache) \ (DOMAIN res.cache)]

UploadFileCall(ps, fs) ==
  \E p \in ps, file \in fs :
    \E res \in {uploadFile(bucket, dirCache, files, p, file)} :
      /\ Apply(res)
      /\ last' = [op |-> "uploadFile", path |-> p, file |-> file, status |-> res.status, key |-> res.key,
                  dropped |-> (DOMAIN dirCache) \ (DOMAIN res.cache)]

RemoveItemCall(ps) ==
  \E p \in ps :
    \E res \in {removeItem(bucket, dirCache, files, p, DefaultMaxKeys)} :
      /\ Apply(res)
      /\ last' = [op |-> "removeItem", path |-> p, status |-> res.status, key |-> res.key,
                  dropped |-> (DOMAIN dirCache) \ (DOMAIN res.cache)]

RenameItemCall(pairs) ==
  \E ab \in pairs :
    \E res \in {renameItem(bucket, dirCache, files, ab[1], ab[2])} :
      /\ Apply(res)
      /\ last' = [op |-> "renameItem", path |-> ab[1], newPath |-> ab[2], status |-> res.status, key |-> res.key,
                  dropped |-> (DOMAIN dirCache) \ (DOMAIN res.cache)]

UpdateFileCall(ps, cs) ==
  \E p \in ps, content \in cs :
    \E res \in {updateFile(bucket, dirCache, files, p, content)} :
      /\ Apply(res)
      /\ last' = [op |-> "updateFile", path |-> p, content |-> content, status |-> res.status, key |-> res.key,
                  dropped |-> (DOMAIN dirCache) \ (DOMAIN res.cache)]

\* the variables of the other specifications
others == <<rq, rs, fc, s3Configs, driverPool, fr, cc, searchCache>>

CreateDirectory == CreateDirectoryCall(DirPaths \cup OddPaths) /\ UNCHANGED others
UploadFile      == UploadFileCall(UploadPaths, Uploads) /\ UNCHANGED others
RemoveItem      == RemoveItemCall(Paths) /\ UNCHANGED others
RenameItem      == RenameItemCall(RenamePairs) /\ UNCHANGED others
UpdateFile      == UpdateFileCall(FilePaths \cup OddPaths, Bodies) /\ UNCHANGED others

Next ==
  \/ CreateDirectory
  \/ UploadFile
  \/ RemoveItem
  \/ RenameItem
  \/ UpdateFile

Spec == Init /\ [][Next]_vars

-----------------------------------------------------------------------------
(* Specification CacheSpec: the same calls interleaved with cached listings *)

NestedFile == <<"/", "m", "/", "a", "/", "x">>
OneUpload  == {[name |-> <<"x">>, body |-> <<7>>, type |-> OctetStream]}

CacheRenamePairs ==
  {<<NestedFile, <<"/", "m", "/", "x">>>>,
   <<<<"/", "m", "/", "a", "/", "b", "/">>, <<"/", "m", "/", "a", "/">>>>,
   <<<<"/", "m", "/", "a", "/">>, <<"/", "m", "/", "a", "/", "b", "/">>>>}

ListDirectory         == ListDirectoryOn(DirPaths \cup OddPaths)
CachedCreateDirectory == CreateDirectoryCall(DirPaths) /\ UNCHANGED others
CachedUploadFile      == UploadFileCall(DirPaths, OneUpload) /\ UNCHANGED others
CachedRemoveItem      == RemoveItemCall(DirPaths \cup {NestedFile}) /\ UNCHANGED others
CachedRenameItem      == RenameItemCall(CacheRenamePairs) /\ UNCHANGED others
CachedUpdateFile      == UpdateFileCall({NestedFile}, {<<7>>}) /\ UNCHANGED others

CacheNext ==
  \/ ListDirectory
  \/ CachedCreateDirectory
  \/ CachedUploadFile
  \/ CachedRemoveItem
  \/ CachedRenameItem
  \/ CachedUpdateFile

CacheSpec == Init /\ [][CacheNext]_vars

-----------------------------------------------------------------------------
(* Specification ResolveSpec: listDirectory's resolution of a path against the
   mounts a principal sees, in whatever order the repository returns them *)

MaxMounts == 3    \* most mounts a principal sees

MountAt(id, mountPath) ==
  [id |-> id, mount_path |-> mountPath, cache_ttl |-> 60, storage_config_id |-> "c1",
   is_active |-> TRUE, owner |-> "admin1"]

VisibleMounts ==
  {MountAt("m1", <<"/", "m">>), MountAt("m2", <<"/", "m", "/", "a">>),
   MountAt("m3", <<"/", "n">>), MountAt("m4", <<"/", "m", "/", "a", "b">>)}

\* the lists of distinct mounts, up to MaxMounts long
MountLists ==
  UNION {{ms \in [1..n -> VisibleMounts] : \A i, j \in 1..n : i # j => ms[i] # ms[j]} : n \in 0..MaxMounts}

ResolvePaths ==
  {<<"/">>, <<"/", "m">>, <<"/", "m", "/">>, <<"/", "m", "/", "a">>,
   <<"/", "m", "/", "a", "/", "x">>, <<"/", "m", "/", "a", "b", "/">>,
   <<"/", "n", "/", "x", "/">>, <<"/", "q", "/">>, <<"m", "/", "a", "/">>}

Requests == [mounts : MountLists, path : ResolvePaths]

ResolveInit ==
  /\ rq \in Requests
  /\ rs = Idle
  /\ bucket = EmptyMap /\ dirCache = EmptyMap /\ files = {} /\ last = Idle
  /\ fc = Idle /\ fr = Idle /\ cc = Idle /\ searchCache = EmptyMap
  /\ s3Configs = StoredConfigs /\ driverPool = EmptyMap

\* listDirectory up to the dispatch to the virtual or the S3 listing
Resolve ==
  /\ rs = Idle
  /\ rs' = ResolveForList(rq.mounts, rq.path)
  /\ UNCHANGED <<bucket, dirCache, files, last, rq, fc, s3Configs, driverPool, fr, cc, searchCache>>

\* the next call arrives
Ask ==
  /\ rs # Idle
  /\ rq' \in Requests
  /\ rs' = Idle
  /\ UNCHANGED <<bucket, dirCache, files, last, fc, s3Configs, driverPool, fr, cc, searchCache>>

ResolveNext == Resolve \/ Ask

ResolveSpec == ResolveInit /\ [][ResolveNext]_vars

-----------------------------------------------------------------------------
(* Specification DirSpec: createDirectory and removeItem called again and again
   on one directory path, from any bucket of placeholders and files *)

MaxCalls == 4    \* most calls of one history

DirTargets == {<<"/", "m", "/", "a", "/">>, <<"/", "m", "/", "a", "/", "b", "/">>}

DirKeys ==
  {<<"a", "/">>, <<"a", "/", "b", "/">>, <<"a", "/", "b", "/", "x">>, <<"a", "/", "x">>, <<"x">>}

ObjectAt(k) ==
  IF EndsWith(k, <<"/">>) THEN [body |-> <<>>, ctype |-> DirectoryType]
  ELSE [body |-> <<7>>, ctype |-> OctetStream]

DirInitBuckets ==
  {[k \in ks |-> ObjectAt(k)] : ks \in {ks \in SUBSET DirKeys : Cardinality(ks) <= MaxObjects}}

\* rq is the path under study; rs counts the calls made on it, and rs.made says that
\* the last successful one was a createDirectory
DirInit ==
  /\ rq \in [path : DirTargets]
  /\ rs = [made |-> FALSE, calls |-> 0]
  /\ bucket \in DirInitBuckets
  /\ dirCache = EmptyMap /\ files = {} /\ last = Idle
  /\ fc = Idle /\ fr = Idle /\ cc = Idle /\ searchCache = EmptyMap
  /\ s3Configs = StoredConfigs /\ driverPool = EmptyMap

DirCreate ==
  /\ rs.calls < MaxCalls
  /\ CreateDirectoryCall({rq.path})
  /\ rs' = [made |-> rs.made \/ last'.status = "ok", calls |-> rs.calls + 1]
  /\ UNCHANGED <<rq, fc, s3Configs, driverPool, fr, cc, searchCache>>

DirRemove ==
  /\ rs.calls < MaxCalls
  /\ RemoveItemCall({rq.path})
  /\ rs' = [made |-> rs.made /\ last'.status # "ok", calls |-> rs.calls + 1]
  /\ UNCHANGED <<rq, fc, s3Configs, driverPool, fr, cc, searchCache>>

DirNext == DirCreate \/ DirRemove

DirSpec == DirInit /\ [][DirNext]_vars

-----------------------------------------------------------------------------
(* The FileSystem facade: resolve the driver, check its capability, forward *)

Capabilities == {"READER", "WRITER", "ATOMIC", "PRESIGNED", "MULTIPART"}

MultipartOps ==
  {"initializeFrontendMultipartUpload", "completeFrontendMultipartUpload",
   "abortFrontendMultipartUpload", "listMultipartUploads", "listMultipartParts",
   "refreshMultipartUrls", "abortBackendMultipartUpload"}

\* the methods that check one capability and forward to the driver method of their name
GatedOps ==
  {"listDirectory", "getFileInfo", "downloadFile", "uploadFile", "createDirectory",
   "renameItem", "copyItem", "generatePresignedUrl", "updateFile"} \cup MultipartOps

\* the capability each of them checks with driver.hasCapability
CheckedCapability(op) ==
  CASE op \in {"listDirectory", "getFileInfo", "downloadFile"} -> "READER"
    [] op \in {"uploadFile", "uploadStream", "createDirectory", "updateFile", "batchRemoveItems"} -> "WRITER"
    [] op \in {"renameItem", "copyItem", "handleCrossStorageCopy"} -> "ATOMIC"
    [] op = "generatePresignedUrl" -> "PRESIGNED"
    [] op \in MultipartOps -> "MULTIPART"

\* MountManager.getDriverByPath: the mount of the path and its driver, or the error it raises
getDriverByPath(path) == findMountPointByPath(Mounts, path)

Raised(status) == [status |-> status, invoked |-> {}]
Forwarded(mountId, method) == [status |-> "ok", invoked |-> {<<mountId, method>>}]

\* a gated method: resolve, check the capability, forward
GatedForward(op, path, driver) ==
  LET r == getDriverByPath(path)
  IN  IF r.error # "none" THEN Raised(r.error)
      ELSE IF CheckedCapability(op) \notin driver.caps THEN Raised("Unimplemented")
      ELSE Forwarded(r.mount.id, op)

\* uploadStream: the WRITER check, then the check that the driver has the method
FacadeUploadStreamResult(path, driver) ==
  LET r == getDriverByPath(path)
  IN  IF r.error # "none" THEN Raised(r.error)
      ELSE IF "WRITER" \notin driver.caps THEN Raised("Unimplemented")
      ELSE IF ~driver.hasUploadStream THEN Raised("Unimplemented")
      ELSE Forwarded(r.mount.id, "uploadStream")

\* exists: resolve and forward
FacadeExistsResult(path, driver) ==
  LET r == getDriverByPath(path)
  IN  IF r.error # "none" THEN Raised(r.error) ELSE Forwarded(r.mount.id, "exists")

\* getStats: with a path, resolve and forward; without, a summary of the facade itself
FacadeGetStatsResult(path, driver) ==
  IF path = <<>> THEN [status |-> "ok", invoked |-> {}]
  ELSE LET r == getDriverByPath(path)
       IN  IF r.error # "none" THEN Raised(r.error) ELSE Forwarded(r.mount.id, "getStats")

\* handleCrossStorageCopy: calls mountManager.getDriverBByPath, which MountManager does not have
FacadeCrossStorageCopyResult(path, driver) == Raised("Internal")

\* fs service batchRemoveItems: removeItem path by path, counting successes and recording failures
RECURSIVE BatchRemoveLoop(_, _, _, _, _)
BatchRemoveLoop(paths, b, c, f, result) ==
  IF paths = <<>> THEN [result |-> result, bucket |-> b, cache |-> c, files |-> f]
  ELSE CHOOSE done \in
         {IF r.status = "ok"
          THEN BatchRemoveLoop(Tail(paths), r.bucket, r.cache, r.files,
                               [result EXCEPT !.success = @ + 1])
          ELSE BatchRemoveLoop(Tail(paths), b, c, f,
                               [result EXCEPT !.failed = Append(@, [path |-> Head(paths), error |-> r.status])])
            : r \in {removeItem(b, c, f, Head(paths), DefaultMaxKeys)}} : TRUE

batchRemoveItems(paths, b, c, f) ==
  BatchRemoveLoop(paths, b, c, f, [success |-> 0, failed |-> <<>>])

\* FileSystem.batchRemoveItems raises: nothing is returned and nothing is removed
BatchRaised(status, b, c, f) ==
  [status |-> status, invoked |-> {}, returned |-> FALSE, bucket |-> b, cache |-> c, files |-> f]

\* a facade that resolves a driver for every path of the list
BatchResolvedAll(paths) == paths

\* the paths FileSystem.batchRemoveItems hands to mountManager.getDriverByPath
BatchResolved(paths) == <<paths[1]>>

\* FileSystem.batchRemoveItems: the driver of the first path gets the whole list; the
\* argument is a list or is missing
FacadeBatchRemoveItemsResult(arg, driver, b, c, f) ==
  LET paths == arg.list
      r     == getDriverByPath(paths[1])
      done  == batchRemoveItems(paths, b, c, f)
  IN  IF ~arg.given \/ Len(paths) = 0
      THEN [status |-> "ok", invoked |-> {}, returned |-> TRUE, result |-> [success |-> 0, failed |-> <<>>],
            bucket |-> b, cache |-> c, files |-> f, resolved |-> <<>>, calls |-> <<>>]
      ELSE IF r.error # "none"
      THEN BatchRaised(r.error, b, c, f) @@ [resolved |-> BatchResolved(paths), calls |-> <<>>]
      ELSE IF CheckedCapability("batchRemoveItems") \notin driver.caps
      THEN BatchRaised("Unimplemented", b, c, f) @@ [resolved |-> BatchResolved(paths), calls |-> <<>>]
      ELSE [status |-> "ok", invoked |-> {<<r.mount.id, "batchRemoveItems">>}, returned |-> TRUE,
            result |-> done.result, bucket |-> done.bucket, cache |-> done.cache, files |-> done.files,
            resolved |-> BatchResolved(paths),
            calls |-> <<[mountId |-> r.mount.id, subPath |-> r.subPath, paths |-> paths]>>]

\* what driver.copyItem gives back: a thrown error, or a result object in one of the
\* shapes batchCopyItems reads (status / skipped, with stats or with a details object)
CopyThrown(error, b) ==
  [thrown |-> TRUE, error |-> error, crossStorage |-> FALSE, status |-> "none", skipped |-> FALSE,
   hasStats |-> FALSE, hasDetails |-> FALSE, counts |-> [success |-> 0, skipped |-> 0, failed |-> 0],
   details |-> <<>>, bucket |-> b]

\* the details array of a stats-shaped directory result: one entry per file
CopyDetails(counts) ==
  [i \in 1..(counts.success + counts.skipped) |->
     [status |-> IF i <= counts.success THEN "success" ELSE "skipped"]]

CopyReturned(status, shape, counts, error, b) ==
  [thrown |-> FALSE, error |-> error, crossStorage |-> FALSE, status |-> status, skipped |-> (status = "skipped"),
   hasStats |-> (shape = "stats"), hasDetails |-> (shape = "details"), counts |-> counts,
   details |-> IF shape = "stats" THEN CopyDetails(counts) ELSE <<>>, bucket |-> b]

\* the result of a copy between two storage configurations: nothing is copied, the
\* caller gets what it needs to move the bytes itself
CopyCrossStorage(b) ==
  [thrown |-> FALSE, error |-> "none", crossStorage |-> TRUE, status |-> "none", skipped |-> FALSE,
   hasStats |-> FALSE, hasDetails |-> FALSE, counts |-> [success |-> 0, skipped |-> 0, failed |-> 0],
   details |-> <<>>, bucket |-> b]

\* a failure of the driver: thrown, or reported in the result
CopyFailure(mode, error, b) ==
  IF mode.failure = "throws" THEN CopyThrown(error, b)
  ELSE CopyReturned("failed", "none", [success |-> 0, skipped |-> 0, failed |-> 0], error, b)

\* driver.copyItem on a file: HEAD-probe the destination when skipExisting, else CopyObject
DriverCopyFile(b, srcKey, dstKey, skipExisting, mode) ==
  IF srcKey \notin DOMAIN b THEN CopyFailure(mode, "NotFound", b)
  ELSE IF skipExisting /\ dstKey \in DOMAIN b
  THEN CopyReturned("skipped", "none", [success |-> 0, skipped |-> 0, failed |-> 0], "none", b)
  ELSE CopyReturned("success", "none", [success |-> 0, skipped |-> 0, failed |-> 0], "none",
                    [k \in (DOMAIN b) \cup {dstKey} |-> IF k = dstKey THEN b[srcKey] ELSE b[k]])

\* the key a key under the source prefix is copied to
CopyTargetKey(k, srcPrefix, dstPrefix) == dstPrefix \o SubstringFrom(k, Len(srcPrefix))

\* driver.copyItem on a directory: every key under the prefix is copied or, when
\* skipExisting and its target exists, skipped; the result carries the counts of the files
DriverCopyDirectory(b, srcPrefix, dstPrefix, skipExisting, mode) ==
  LET keys     == {k \in DOMAIN b : StartsWith(k, srcPrefix)}
      fileKeys == keys \ {srcPrefix}
      skippedT == {k \in keys : skipExisting /\ CopyTargetKey(k, srcPrefix, dstPrefix) \in DOMAIN b}
      copied   == keys \ skippedT
      newKeys  == {CopyTargetKey(k, srcPrefix, dstPrefix) : k \in copied}
  IN  IF keys = {} THEN CopyFailure(mode, "NotFound", b)
      ELSE CopyReturned("success", mode.shape,
                        [success |-> Cardinality(fileKeys \ skippedT),
                         skipped |-> Cardinality(fileKeys \cap skippedT), failed |-> 0],
                        "none",
                        [t \in (DOMAIN b) \cup newKeys |->
                           IF t \in newKeys
                           THEN b[CHOOSE k \in copied : CopyTargetKey(k, srcPrefix, dstPrefix) = t]
                           ELSE b[t]])

\* driver.copyItem: the target is resolved like the source
DriverCopyItem(b, sourcePath, subPath, targetPath, skipExisting, mode) ==
  LET t     == findMountPointByPath(Mounts, targetPath)
      isDir == EndsWith(sourcePath, <<"/">>)
  IN  IF t.error # "none" THEN CopyFailure(mode, t.error, b)
      ELSE IF t.mount.storage_config_id # findMountPointByPath(Mounts, sourcePath).mount.storage_config_id
      THEN CopyCrossStorage(b)
      ELSE IF isDir
      THEN DriverCopyDirectory(b, normalizeS3SubPath(subPath, S3Config, TRUE),
                               normalizeS3SubPath(t.subPath, S3Config, TRUE), skipExisting, mode)
      ELSE DriverCopyFile(b, normalizeS3SubPath(subPath, S3Config, FALSE),
                          normalizeS3SubPath(t.subPath, S3Config, FALSE), skipExisting, mode)

\* FileSystem.copyItem: resolve the source, check ATOMIC, forward
FacadeCopyItem(sourcePath, targetPath, skipExisting, driver, b, mode) ==
  LET r == getDriverByPath(sourcePath)
  IN  IF r.error # "none" THEN CopyThrown(r.error, b)
      ELSE IF CheckedCapability("copyItem") \notin driver.caps THEN CopyThrown("Unimplemented", b)
      ELSE DriverCopyItem(b, sourcePath, r.subPath, targetPath, skipExisting, mode)

\* a catch block that records nothing
CatchDropsError(result, item, error) == result

\* batchCopyItems, catch block: the error of the item is recorded
CatchCopyError(result, item, error) ==
  [result EXCEPT !.failed = Append(@, [sourcePath |-> item.sourcePath, targetPath |-> item.targetPath,
                                       error |-> error])]

\* batchCopyItems: an item without a source or a target path is recorded as failed
RecordEmptyPath(result, item) ==
  [result EXCEPT !.failed = Append(@, [sourcePath |-> item.sourcePath, targetPath |-> item.targetPath,
                                       error |-> "EmptyPath"])]

\* batchCopyItems: the counts of one copy result are added to the aggregate
\* a cross-storage result that is counted like a copy made by the driver
CrossStorageCounted(result, item, cr) ==
  [result EXCEPT !.crossStorageResults = Append(@, [sourcePath |-> item.sourcePath]),
                 !.success = @ + 1]

\* batchCopyItems: a cross-storage result is pushed to crossStorageResults and the item is done
CrossStoragePushed(result, item, cr) ==
  [result EXCEPT !.crossStorageResults = Append(@, [sourcePath |-> item.sourcePath])]

AggregateCopyResult(result, item, cr) ==
  IF cr.crossStorage THEN CrossStoragePushed(result, item, cr)
  ELSE IF cr.status = "success" \/ cr.skipped \/ cr.status = "skipped"
  THEN [result EXCEPT
          !.success = @ + (IF cr.skipped \/ cr.status = "skipped" THEN 0 ELSE 1)
                        + (IF cr.hasStats \/ cr.hasDetails THEN cr.counts.success ELSE 0),
          !.skipped = @ + (IF cr.skipped \/ cr.status = "skipped" THEN 1 ELSE 0)
                        + (IF cr.hasStats \/ cr.hasDetails THEN cr.counts.skipped ELSE 0),
          !.details = IF cr.hasStats THEN @ \o cr.details ELSE @]
  ELSE [result EXCEPT !.failed = Append(@, [sourcePath |-> item.sourcePath, targetPath |-> item.targetPath,
                                            error |-> cr.error])]

\* how one item ended: for the record of the call
ItemEnd(item, cr) ==
  IF item.sourcePath = <<>> \/ item.targetPath = <<>> THEN "empty"
  ELSE IF cr.thrown THEN "thrown"
  ELSE IF cr.crossStorage THEN "cross"
  ELSE IF cr.status = "success" THEN "copied"
  ELSE IF cr.status = "skipped" THEN "skipped"
  ELSE "failed"

\* the target path in directory form when the source is a directory
CorrectedTarget(item) ==
  IF EndsWith(item.sourcePath, <<"/">>) /\ ~EndsWith(item.targetPath, <<"/">>)
  THEN item.targetPath \o <<"/">> ELSE item.targetPath

\* skipExisting whatever the item says
SkipExistingAlways(item) == TRUE

\* item.skipExisting !== undefined ? item.skipExisting : true
SkipExistingOrDefault(item) ==
  IF "skipExisting" \in DOMAIN item THEN item.skipExisting ELSE TRUE

\* no call of copyItem for the item
NoCopyCall == [made |-> FALSE]

\* the arguments of this.copyItem for the item
CopyCall(item) ==
  [made |-> TRUE, sourcePath |-> item.sourcePath, targetPath |-> CorrectedTarget(item),
   skipExisting |-> SkipExistingOrDefault(item)]

\* FileSystem.batchCopyItems: the loop over the items; trail holds, item by item, the
\* copyItem call and the aggregate after the item
RECURSIVE BatchCopyLoop(_, _, _, _, _, _, _)
BatchCopyLoop(items, driver, b, mode, result, ends, trail) ==
  IF items = <<>> THEN [result |-> result, bucket |-> b, ends |-> ends, trail |-> trail]
  ELSE LET item == Head(items)
       IN  IF item.sourcePath = <<>> \/ item.targetPath = <<>>
           THEN BatchCopyLoop(Tail(items), driver, b, mode, RecordEmptyPath(result, item), Append(ends, "empty"),
                              Append(trail, [call |-> NoCopyCall, result |-> RecordEmptyPath(result, item)]))
           ELSE CHOOSE done \in
                  {BatchCopyLoop(Tail(items), driver, IF cr.thrown THEN b ELSE cr.bucket, mode, next,
                                 Append(ends, ItemEnd(item, cr)),
                                 Append(trail, [call |-> CopyCall(item), result |-> next])) :
                     <<cr, next>> \in
                       {<<c, IF c.thrown THEN CatchCopyError(result, item, c.error)
                             ELSE AggregateCopyResult(result, item, c)>> :
                          c \in {FacadeCopyItem(CopyCall(item).sourcePath, CopyCall(item).targetPath,
                                                CopyCall(item).skipExisting, driver, b, mode)}}} : TRUE

\* the returned object: hasCrossStorageOperations is set when crossStorageResults is not empty
WithCrossStorageFlag(result) ==
  IF Len(result.crossStorageResults) > 0
  THEN [k \in (DOMAIN result) \cup {"hasCrossStorageOperations"} |->
          IF k = "hasCrossStorageOperations" THEN TRUE ELSE result[k]]
  ELSE result

batchCopyItems(items, driver, b, mode) ==
  CHOOSE out \in
    {[done EXCEPT !.result = IF items = <<>> THEN @ ELSE WithCrossStorageFlag(@)] :
       done \in {BatchCopyLoop(items, driver, b, mode,
                               [success |-> 0, skipped |-> 0, failed |-> <<>>, details |-> <<>>,
                                crossStorageResults |-> <<>>], <<>>, <<>>)}} : TRUE

-----------------------------------------------------------------------------
(* Specification FacadeSpec: facade calls against a driver of some capability set *)

MaxBatch == 2    \* longest list of paths in one batch

\* the drivers: every capability, all but one, none; with or without an uploadStream method
DriverCaps == {Capabilities} \cup {Capabilities \ {cap} : cap \in Capabilities} \cup {{}}
Drivers == [caps : DriverCaps, hasUploadStream : BOOLEAN]

FacadePaths == {<<"/", "m", "/", "x">>, <<"/", "q", "/", "x">>}
BatchPaths  == {<<"/", "m", "/", "x">>, <<"/", "m", "/", "a", "/">>, <<"/", "q", "/", "x">>,
                <<"/", "n", "/", "x">>}
BatchLists  == UNION {[1..n -> BatchPaths] : n \in 0..MaxBatch}
\* the paths argument: a list, or no list at all
BatchArgs   == {[given |-> TRUE, list |-> l] : l \in BatchLists} \cup {[given |-> FALSE, list |-> <<>>]}

FacadeBucket ==
  [k \in {<<"x">>, <<"a", "/", "x">>} |-> [body |-> <<7>>, ctype |-> OctetStream]]

\* the items of a batch copy
CopyItems ==
  {[sourcePath |-> <<"/", "m", "/", "a", "/">>, targetPath |-> <<"/", "m", "/", "b">>, skipExisting |-> TRUE],
   [sourcePath |-> <<"/", "m", "/", "a", "/">>, targetPath |-> <<"/", "m", "/", "b", "/">>, skipExisting |-> FALSE],
   [sourcePath |-> <<"/", "m", "/", "x">>, targetPath |-> <<"/", "m", "/", "y">>, skipExisting |-> TRUE],
   [sourcePath |-> <<>>, targetPath |-> <<"/", "m", "/", "y">>, skipExisting |-> TRUE],
   [sourcePath |-> <<"/", "q", "/", "x">>, targetPath |-> <<"/", "m", "/", "y">>, skipExisting |-> TRUE],
   [sourcePath |-> <<"/", "m", "/", "z">>, targetPath |-> <<"/", "m", "/", "y">>, skipExisting |-> TRUE],
   [sourcePath |-> <<"/", "m", "/", "x">>, targetPath |-> <<"/", "m", "/", "y">>],
   [sourcePath |-> <<"/", "m", "/", "x">>, targetPath |-> <<"/", "o", "/", "y">>, skipExisting |-> FALSE],
   [sourcePath |-> <<"/", "m", "/", "a", "/">>, targetPath |-> <<"/", "o", "/", "b">>]}
CopyLists == UNION {[1..n -> CopyItems] : n \in 0..MaxBatch}

\* how the driver signals a failure and which shape its directory result has
CopyModes == [failure : {"throws", "reports"}, shape : {"stats", "details"}]

\* fc is the driver behind the mount; fr is the last facade call with its outcome
FacadeInit ==
  /\ fc \in Drivers
  /\ fr = Idle
  /\ bucket = FacadeBucket
  /\ dirCache = EmptyMap /\ files = {} /\ last = Idle
  /\ rq = Idle /\ rs = Idle /\ cc = Idle /\ searchCache = EmptyMap
  /\ s3Configs = StoredConfigs /\ driverPool = EmptyMap

Answer(op, path, out) == [op |-> op, path |-> path, status |-> out.status, invoked |-> out.invoked]

\* what a call that only dispatches leaves alone
dispatchOnly == <<bucket, dirCache, files, last, rq, rs, fc, s3Configs, driverPool, cc, searchCache>>

FacadeGated ==
  \E op \in GatedOps, path \in FacadePaths :
    /\ fr' = Answer(op, path, GatedForward(op, path, fc))
    /\ UNCHANGED dispatchOnly

FacadeUploadStream ==
  \E path \in FacadePaths :
    /\ fr' = Answer("uploadStream", path, FacadeUploadStreamResult(path, fc))
    /\ UNCHANGED dispatchOnly

FacadeExists ==
  \E path \in FacadePaths :
    /\ fr' = Answer("exists", path, FacadeExistsResult(path, fc))
    /\ UNCHANGED dispatchOnly

FacadeGetStats ==
  \E path \in FacadePaths \cup {<<>>} :
    /\ fr' = Answer("getStats", path, FacadeGetStatsResult(path, fc))
    /\ UNCHANGED dispatchOnly

FacadeHandleCrossStorageCopy ==
  \E path \in FacadePaths :
    /\ fr' = Answer("handleCrossStorageCopy", path, FacadeCrossStorageCopyResult(path, fc))
    /\ UNCHANGED dispatchOnly

FacadeBatchRemoveItems ==
  \E arg \in BatchArgs :
    \E out \in {FacadeBatchRemoveItemsResult(arg, fc, bucket, dirCache, files)} :
        /\ bucket' = out.bucket /\ dirCache' = out.cache /\ files' = out.files
        /\ fr' = [op |-> "batchRemoveItems", given |-> arg.given, paths |-> arg.list, status |-> out.status,
                  invoked |-> out.invoked, returned |-> out.returned,
                  result |-> IF out.returned THEN out.result ELSE Idle,
                  resolved |-> out.resolved, calls |-> out.calls]
        /\ UNCHANGED <<last, rq, rs, fc, s3Configs, driverPool, cc, searchCache>>

FacadeBatchCopyItems ==
  \E items \in CopyLists, mode \in CopyModes :
    \E out \in {batchCopyItems(items, fc, bucket, mode)} :
        /\ bucket' = out.bucket
        /\ fr' = [op |-> "batchCopyItems", items |-> items, status |-> "ok", invoked |-> {},
                  returned |-> TRUE, result |-> out.result, ends |-> out.ends, before |-> bucket,
                  trail |-> out.trail]
        /\ UNCHANGED <<dirCache, files, last, rq, rs, fc, s3Configs, driverPool, cc, searchCache>>

FacadeNext ==
  \/ FacadeGated
  \/ FacadeUploadStream
  \/ FacadeExists
  \/ FacadeGetStats
  \/ FacadeHandleCrossStorageCopy
  \/ FacadeBatchRemoveItems

FacadeSpec == FacadeInit /\ [][FacadeNext]_vars

\* Specification CopySpec: batch copies against a driver with or without ATOMIC
CopyInit ==
  /\ fc \in {d \in Drivers : d.hasUploadStream /\ Capabilities \ {"ATOMIC"} \subseteq d.caps}
  /\ fr = Idle
  /\ bucket = FacadeBucket
  /\ dirCache = EmptyMap /\ files = {} /\ last = Idle
  /\ rq = Idle /\ rs = Idle /\ cc = Idle /\ searchCache = EmptyMap
  /\ s3Configs = StoredConfigs /\ driverPool = EmptyMap

CopyNext == FacadeBatchCopyItems

CopySpec == CopyInit /\ [][CopyNext]_vars

-----------------------------------------------------------------------------
(* FileSystem.searchFiles *)

\* the mounts table: two active mounts of two owners and a disabled one
SearchMounts ==
  <<[id |-> "m1", owner |-> "admin1", is_active |-> TRUE],
    [id |-> "m2", owner |-> "admin2", is_active |-> TRUE],
    [id |-> "m3", owner |-> "admin1", is_active |-> FALSE]>>

\* what each mount stores: file name and modification time
StoredNames(mountId) ==
  CASE mountId = "m1" -> {[name |-> <<"a", "b">>, modified |-> 1]}
    [] mountId = "m2" -> {[name |-> <<"a", "b", "c">>, modified |-> 2]}
    [] OTHER -> {[name |-> <<"x", "a", "b">>, modified |-> 3]}

\* MountRepository.findAll(false): the active mounts, whoever owns them
findAllActive(ms) == SelectSeq(ms, LAMBDA m : m.is_active)

\* query.trim()
RECURSIVE TrimStart(_)
TrimStart(q) == IF q # <<>> /\ Head(q) = " " THEN TrimStart(Tail(q)) ELSE q

RECURSIVE TrimEnd(_)
TrimEnd(q) == IF q # <<>> /\ q[Len(q)] = " " THEN TrimEnd(SubSeq(q, 1, Len(q) - 1)) ELSE q

Trim(q) == TrimEnd(TrimStart(q))

IsSubstring(q, name) == \E i \in 1..(Len(name) - Len(q) + 1) : SubSeq(name, i, i + Len(q) - 1) = q

\* driver.search: the files of the mount whose name contains the query
DriverSearch(query, mountId) ==
  {[mount |-> mountId, name |-> f.name, modified |-> f.modified] :
     f \in {f \in StoredNames(mountId) : IsSubstring(Trim(query), f.name)}}

\* sortSearchResults: exact name, then name prefix, then name substring; newer first among equals
RelevanceRank(hit, query) ==
  IF hit.name = Trim(query) THEN 0 ELSE IF StartsWith(hit.name, Trim(query)) THEN 1 ELSE 2

Before(h1, h2, query) ==
  \/ RelevanceRank(h1, query) < RelevanceRank(h2, query)
  \/ RelevanceRank(h1, query) = RelevanceRank(h2, query) /\ h1.modified > h2.modified

RECURSIVE sortSearchResults(_, _)
sortSearchResults(hits, query) ==
  IF hits = {} THEN <<>>
  ELSE LET first == CHOOSE h \in hits : \A g \in hits \ {h} : ~Before(g, h, query)
       IN  <<first>> \o sortSearchResults(hits \ {first}, query)

\* results.slice(offset, offset + limit)
Slice(seq, from, to) ==
  SubSeq(seq, (IF from > Len(seq) THEN Len(seq) ELSE from) + 1, IF to > Len(seq) THEN Len(seq) ELSE to)

\* SearchCache key: the normalised query, the scope and its target, the principal
SearchCacheKey(query, params, principal) ==
  <<Trim(query), params.scope, params.mountId, principal.id>>

SearchRaised(status, cache) ==
  [status |-> status, invoked |-> {}, cache |-> cache, cacheHit |-> FALSE,
   result |-> [results |-> <<>>, total |-> 0, hasMore |-> FALSE]]

\* the mounts searchFiles fans out to: all active ones, or the one named by params.mountId
TargetMounts(params) ==
  LET accessibleMounts == findAllActive(SearchMounts)
  IN  IF params.scope \in {"mount", "directory"} /\ params.mountId # "none"
      THEN SelectSeq(accessibleMounts, LAMBDA m : m.id = params.mountId)
      ELSE accessibleMounts

\* the mounts whose driver.search is called: those whose driver has READER
SearchedMounts(params, env) ==
  ({TargetMounts(params)[i].id : i \in 1..Len(TargetMounts(params))} \cap env.readers) \ env.noDriver

\* a fan-out that gives up every hit once one mount has failed
AllOrNothing(params, env) ==
  IF \E i \in 1..Len(TargetMounts(params)) :
       TargetMounts(params)[i].id \in env.noDriver \cup env.searchFails
  THEN {}
  ELSE SearchedMounts(params, env)

\* the mounts whose promise carries hits: getDriver and driver.search both returned; a
\* throw of either is caught per mount and counts as an empty list
SettledMounts(params, env) == SearchedMounts(params, env) \ env.searchFails

\* a validation that lets every limit through
LimitUnchecked(query, params) ==
  /\ Len(Trim(query)) >= 2
  /\ params.scope \in {"global", "mount", "directory"}
  /\ params.offset >= 0

\* searchFiles' parameter validation: the query, the scope, the limit, the offset
SearchArgsValid(query, params) ==
  /\ ~(Len(Trim(query)) < 2)
  /\ params.scope \in {"global", "mount", "directory"}
  /\ ~(params.limit < 1 \/ params.limit > 200)
  /\ ~(params.offset < 0)

\* a cache that stores every result
SearchCacheSetAlways(cache, key, searchResult) ==
  [k \in (DOMAIN cache) \cup {key} |-> IF k = key THEN searchResult ELSE cache[k]]

\* the cache after searchFiles: the result is stored only when total > 0
SearchCacheSet(cache, key, searchResult) ==
  IF searchResult.total > 0
  THEN [k \in (DOMAIN cache) \cup {key} |-> IF k = key THEN searchResult ELSE cache[k]]
  ELSE cache

searchFiles(query, params, principal, env, cache) ==
  LET key          == SearchCacheKey(query, params, principal)
      targetMounts == TargetMounts(params)
      searched     == SearchedMounts(params, env)
      sorted       == sortSearchResults(UNION {DriverSearch(query, m) : m \in SettledMounts(params, env)}, query)
      searchResult == [results |-> Slice(sorted, params.offset, params.offset + params.limit),
                       total |-> Len(sorted),
                       hasMore |-> params.offset + params.limit < Len(sorted)]
  IN  IF ~SearchArgsValid(query, params) THEN SearchRaised("BadRequest", cache)
      ELSE IF key \in DOMAIN cache
      THEN [status |-> "ok", invoked |-> {}, cache |-> cache, cacheHit |-> TRUE, result |-> cache[key]]
      ELSE IF findAllActive(SearchMounts) = <<>>
      THEN [status |-> "ok", invoked |-> {}, cache |-> cache, cacheHit |-> FALSE,
            result |-> [results |-> <<>>, total |-> 0, hasMore |-> FALSE]]
      ELSE IF targetMounts = <<>> THEN SearchRaised("Forbidden", cache)
      ELSE [status |-> "ok", invoked |-> searched, cacheHit |-> FALSE, result |-> searchResult,
            cache |-> SearchCacheSet(cache, key, searchResult)]

-----------------------------------------------------------------------------
(* Specification SearchSpec: searchFiles calls of an admin and of an API key *)

MaxCached == 1    \* most live entries of the search cache

Admin1 == [type |-> "admin", id |-> "admin1", permitted |-> {}]
Key1   == [type |-> "apiKey", id |-> "key1", permitted |-> {"m1"}]

ValidSearches ==
  [query : {<<"a", "b">>}, scope : {"global", "mount", "directory"}, mountId : {"none", "m1", "m2", "m3"},
   limit : {1, 50}, offset : {0}, principal : {Admin1, Key1}]

EdgeSearches ==
  {[query |-> <<"a", " ">>, scope |-> "global", mountId |-> "none", limit |-> 50, offset |-> 0, principal |-> Admin1],
   [query |-> <<"a">>, scope |-> "global", mountId |-> "none", limit |-> 50, offset |-> 0, principal |-> Admin1],
   [query |-> <<>>, scope |-> "global", mountId |-> "none", limit |-> 50, offset |-> 0, principal |-> Admin1],
   [query |-> <<"a", "b">>, scope |-> "bogus", mountId |-> "none", limit |-> 50, offset |-> 0, principal |-> Admin1],
   [query |-> <<"a", "b">>, scope |-> "global", mountId |-> "none", limit |-> 0, offset |-> 0, principal |-> Admin1],
   [query |-> <<"a", "b">>, scope |-> "global", mountId |-> "none", limit |-> 201, offset |-> 0, principal |-> Admin1],
   [query |-> <<"a", "b">>, scope |-> "global", mountId |-> "none", limit |-> 50, offset |-> -1, principal |-> Admin1],
   [query |-> <<"a", "b">>, scope |-> "global", mountId |-> "none", limit |-> 1, offset |-> 1, principal |-> Key1],
   [query |-> <<"z", "z">>, scope |-> "global", mountId |-> "none", limit |-> 50, offset |-> 0, principal |-> Key1]}

Searches == ValidSearches \cup EdgeSearches

\* fc.readers: the mounts whose driver has READER; fc.noDriver: the mounts whose getDriver
\* throws; fc.searchFails: the mounts whose driver.search throws
SearchInit ==
  /\ fc \in [readers : {{"m1", "m2", "m3"}, {"m2", "m3"}},
             noDriver : {{}, {"m1"}}, searchFails : {{}, {"m2"}, {"m1", "m2"}}]
  /\ fr = Idle
  /\ searchCache = EmptyMap
  /\ bucket = EmptyMap /\ dirCache = EmptyMap /\ files = {} /\ last = Idle
  /\ rq = Idle /\ rs = Idle /\ cc = Idle
  /\ s3Configs = StoredConfigs /\ driverPool = EmptyMap

SearchFiles ==
  \E call \in Searches :
    \E out \in {searchFiles(call.query, [scope |-> call.scope, mountId |-> call.mountId,
                                         limit |-> call.limit, offset |-> call.offset],
                            call.principal, fc, searchCache)} :
      /\ Cardinality(DOMAIN out.cache) <= MaxCached
      /\ searchCache' = out.cache
      /\ fr' = [op |-> "searchFiles", call |-> call, status |-> out.status, invoked |-> out.invoked,
                cacheHit |-> out.cacheHit, result |-> out.result]
      /\ UNCHANGED <<bucket, dirCache, files, last, rq, rs, fc, s3Configs, driverPool, cc>>

\* the entries of the search cache reach their TTL
SearchCacheExpire ==
  /\ searchCache # EmptyMap
  /\ searchCache' = EmptyMap
  /\ UNCHANGED <<bucket, dirCache, files, last, rq, rs, fc, s3Configs, driverPool, fr, cc>>

SearchNext == SearchFiles \/ SearchCacheExpire

SearchSpec == SearchInit /\ [][SearchNext]_vars

-----------------------------------------------------------------------------
(* Specification ConcSpec: one listDirectory and one mutation inside the listed
   directory, interleaved at their awaits.  The listing reads the cache, then
   lists S3, then fills the cache; the mutation writes to S3, then invalidates. *)

RootDir   == <<"/", "m", "/">>
NestedDir == <<"/", "m", "/", "a", "/">>

\* a mutation with the directory it happens in
ConcPairs ==
  {[dir |-> d, call |-> [op |-> "uploadFile", path |-> d, newPath |-> <<>>]] : d \in {RootDir, NestedDir}}
  \cup {[dir |-> RootDir,   call |-> [op |-> "createDirectory", path |-> NestedDir, newPath |-> <<>>]],
        [dir |-> NestedDir, call |-> [op |-> "createDirectory", path |-> <<"/", "m", "/", "a", "/", "b", "/">>, newPath |-> <<>>]],
        [dir |-> RootDir,   call |-> [op |-> "removeItem", path |-> <<"/", "m", "/", "x">>, newPath |-> <<>>]],
        [dir |-> NestedDir, call |-> [op |-> "removeItem", path |-> NestedFile, newPath |-> <<>>]],
        [dir |-> RootDir,   call |-> [op |-> "renameItem", path |-> <<"/", "m", "/", "x">>, newPath |-> NestedFile]],
        [dir |-> NestedDir, call |-> [op |-> "renameItem", path |-> NestedFile, newPath |-> <<"/", "m", "/", "x">>]]}

ConcBuckets ==
  {[k \in ks |-> ObjectAt(k)] :
     ks \in {{}, {<<"x">>}, {<<"a", "/">>}, {<<"a", "/", "x">>}, {<<"a", "/">>, <<"x">>}}}

\* the handler a mutation runs
CallOutcome(call, b, c, f) ==
  CASE call.op = "uploadFile"      -> uploadFile(b, c, f, call.path, [name |-> <<"x">>, body |-> <<7>>, type |-> OctetStream])
    [] call.op = "createDirectory" -> createDirectory(b, c, f, call.path)
    [] call.op = "removeItem"      -> removeItem(b, c, f, call.path, DefaultMaxKeys)
    [] call.op = "renameItem"      -> renameItem(b, c, f, call.path, call.newPath)

ConcInit ==
  /\ bucket \in ConcBuckets
  /\ dirCache = EmptyMap /\ files = {} /\ last = Idle
  /\ \E pair \in ConcPairs :
       cc = [dir |-> pair.dir, call |-> pair.call, lpc |-> "start", mpc |-> "start",
             snapshot |-> {}, before |-> EmptyMap, mstatus |-> "none", listedBeforeWrite |-> FALSE]
  /\ rq = Idle /\ rs = Idle /\ fc = Idle /\ fr = Idle /\ searchCache = EmptyMap
  /\ s3Configs = StoredConfigs /\ driverPool = EmptyMap

\* listDirectory resolves the listed directory to its mount and sub-path
ListedSubPath == ResolveForList(Mounts, cc.dir).subPath

ListedKey == <<Mount1.id, ListedSubPath>>

\* getS3DirectoryListing: directoryCacheManager.get
ListGet ==
  /\ cc.lpc = "start"
  /\ cc' = [cc EXCEPT !.lpc = IF Mount1.cache_ttl > 0 /\ ListedKey \in DOMAIN dirCache THEN "done" ELSE "miss"]
  /\ UNCHANGED <<bucket, dirCache, files, last, rq, rs, fc, s3Configs, driverPool, fr, searchCache>>

\* getS3DirectoryListing: the ListObjectsV2 call answers with the keys stored at that moment
ListS3 ==
  /\ cc.lpc = "miss"
  /\ cc' = [cc EXCEPT !.lpc = "listed",
                      !.snapshot = ListingItems(bucket, ListedSubPath, S3Config),
                      !.listedBeforeWrite = (cc.mpc = "start")]
  /\ UNCHANGED <<bucket, dirCache, files, last, rq, rs, fc, s3Configs, driverPool, fr, searchCache>>

\* getS3DirectoryListing: directoryCacheManager.set with the listing built from the answer
ListSet ==
  /\ cc.lpc = "listed"
  /\ dirCache' = IF Mount1.cache_ttl > 0
                 THEN CacheSet(dirCache, Mount1.id, ListedSubPath, cc.snapshot) ELSE dirCache
  /\ cc' = [cc EXCEPT !.lpc = "done"]
  /\ UNCHANGED <<bucket, files, last, rq, rs, fc, s3Configs, driverPool, fr, searchCache>>

\* the mutation up to its S3 write (or its failure)
MutateWrite ==
  /\ cc.mpc = "start"
  /\ \E res \in {CallOutcome(cc.call, bucket, dirCache, files)} :
       /\ bucket' = res.bucket
       /\ files' = res.files
       /\ cc' = [cc EXCEPT !.mpc = IF res.status = "ok" THEN "written" ELSE "done",
                           !.mstatus = res.status,
                           !.before = bucket]
  /\ UNCHANGED <<dirCache, last, rq, rs, fc, s3Configs, driverPool, fr, searchCache>>

\* the mutation's cache invalidation, after the write and the awaits that follow it
MutateInvalidate ==
  /\ cc.mpc = "written"
  /\ dirCache' = CallOutcome(cc.call, cc.before, dirCache, files).cache
  /\ cc' = [cc EXCEPT !.mpc = "done"]
  /\ UNCHANGED <<bucket, files, last, rq, rs, fc, s3Configs, driverPool, fr, searchCache>>

ConcNext == ListGet \/ ListS3 \/ ListSet \/ MutateWrite \/ MutateInvalidate

ConcSpec == ConcInit /\ [][ConcNext]_vars

-----------------------------------------------------------------------------
(* Specification PoolSpec: the admin routes PUT and DELETE /api/s3-configs/:id,
   interleaved at their awaits with a data-path request that takes its driver
   from the MountManager pool.  cc.admin and cc.req are the two positions. *)

MaxVersion == 3

ConfigIds == {"c1", "c2"}

PoolKey(id) == <<"S3", id>>

\* MountManager.clearConfigCache(storageType, configId): the pooled driver is torn down
clearConfigCache(pool, storageType, configId) ==
  [k \in (DOMAIN pool) \ {<<storageType, configId>>} |-> pool[k]]

\* s3ConfigService.updateS3Config: the row gets its next version
updateS3Config(configs, id) == [configs EXCEPT ![id] = @ + 1]

\* s3ConfigService.deleteS3Config: the row is removed
deleteS3Config(configs, id) == [k \in (DOMAIN configs) \ {id} |-> configs[k]]

\* a driver is being built for the key: its creator holds the per-key lock
Building(id) == cc.req.pc \in {"building", "read"} /\ cc.req.id = id

PoolInit ==
  /\ s3Configs = StoredConfigs /\ driverPool = EmptyMap
  /\ cc = [admin |-> [pc |-> "idle", id |-> "none"], req |-> [pc |-> "idle", id |-> "none", read |-> 0]]
  /\ last = Idle
  /\ bucket = EmptyMap /\ dirCache = EmptyMap /\ files = {}
  /\ rq = Idle /\ rs = Idle /\ fc = Idle /\ fr = Idle /\ searchCache = EmptyMap

poolOnly == <<bucket, dirCache, files, rq, rs, fc, fr, searchCache>>

\* PUT /api/s3-configs/:id: await updateS3Config; a missing row answers an error
PutConfigUpdate ==
  /\ cc.admin.pc = "idle"
  /\ \E id \in ConfigIds :
       IF id \in DOMAIN s3Configs
       THEN /\ s3Configs[id] < MaxVersion
            /\ s3Configs' = updateS3Config(s3Configs, id)
            /\ cc' = [cc EXCEPT !.admin = [pc |-> "updated", id |-> id]]
            /\ last' = [op |-> "updateS3Config", id |-> id, status |-> "pending"]
       ELSE /\ last' = [op |-> "updateS3Config", id |-> id, status |-> "Internal"]
            /\ last' # last
            /\ UNCHANGED <<s3Configs, cc>>
  /\ UNCHANGED <<driverPool, poolOnly>>

\* PUT /api/s3-configs/:id: await mountManager.clearConfigCache("S3", id), then the success answer
PutConfigClear ==
  /\ cc.admin.pc = "updated"
  /\ ~Building(cc.admin.id)
  /\ driverPool' = clearConfigCache(driverPool, "S3", cc.admin.id)
  /\ cc' = [cc EXCEPT !.admin = [pc |-> "idle", id |-> "none"]]
  /\ last' = [op |-> "updateS3Config", id |-> cc.admin.id, status |-> "ok"]
  /\ UNCHANGED <<s3Configs, poolOnly>>

\* DELETE /api/s3-configs/:id: await mountManager.clearConfigCache("S3", id) comes first
DeleteConfigClear ==
  /\ cc.admin.pc = "idle"
  /\ \E id \in ConfigIds :
       /\ ~Building(id)
       /\ driverPool' = clearConfigCache(driverPool, "S3", id)
       /\ cc' = [cc EXCEPT !.admin = [pc |-> "cleared", id |-> id]]
       /\ last' = [op |-> "deleteS3Config", id |-> id, status |-> "pending"]
  /\ UNCHANGED <<s3Configs, poolOnly>>

\* DELETE /api/s3-configs/:id: await deleteS3Config, then the success answer; a missing row answers an error
DeleteConfigRow ==
  /\ cc.admin.pc = "cleared"
  /\ s3Configs' = deleteS3Config(s3Configs, cc.admin.id)
  /\ cc' = [cc EXCEPT !.admin = [pc |-> "idle", id |-> "none"]]
  /\ last' = [op |-> "deleteS3Config", id |-> cc.admin.id,
              status |-> IF cc.admin.id \in DOMAIN s3Configs THEN "ok" ELSE "Internal"]
  /\ UNCHANGED <<driverPool, poolOnly>>

\* POST /api/s3-configs: the config is stored again, at a version never used before
PostConfig ==
  /\ cc.admin.pc = "idle"
  /\ \E id \in ConfigIds \ DOMAIN s3Configs :
       /\ s3Configs' = [k \in (DOMAIN s3Configs) \cup {id} |-> IF k = id THEN MaxVersion ELSE s3Configs[k]]
       /\ last' = [op |-> "createS3Config", id |-> id, status |-> "ok"]
  /\ UNCHANGED <<cc, driverPool, poolOnly>>

\* MountManager.getDriver: a pooled driver is returned as it is; otherwise one is built
GetDriverLookup ==
  /\ cc.req.pc = "idle"
  /\ \E id \in ConfigIds :
       cc' = [cc EXCEPT !.req = IF PoolKey(id) \in DOMAIN driverPool
                                 THEN [pc |-> "served", id |-> id, read |-> driverPool[PoolKey(id)]]
                                 ELSE [pc |-> "building", id |-> id, read |-> 0]]
  /\ UNCHANGED <<s3Configs, driverPool, last, poolOnly>>

\* MountManager.getDriver: the config row is read to build the driver
GetDriverReadConfig ==
  /\ cc.req.pc = "building"
  /\ cc' = [cc EXCEPT !.req = IF cc.req.id \in DOMAIN s3Configs
                               THEN [pc |-> "read", id |-> cc.req.id, read |-> s3Configs[cc.req.id]]
                               ELSE [pc |-> "idle", id |-> "none", read |-> 0]]
  /\ UNCHANGED <<s3Configs, driverPool, last, poolOnly>>

\* MountManager.getDriver: the built driver enters the pool
GetDriverInsert ==
  /\ cc.req.pc = "read"
  /\ driverPool' = [k \in (DOMAIN driverPool) \cup {PoolKey(cc.req.id)} |->
                      IF k = PoolKey(cc.req.id) THEN cc.req.read ELSE driverPool[k]]
  /\ cc' = [cc EXCEPT !.req = [pc |-> "served", id |-> cc.req.id, read |-> cc.req.read]]
  /\ UNCHANGED <<s3Configs, last, poolOnly>>

\* the data-path request returns
RequestDone ==
  /\ cc.req.pc = "served"
  /\ cc' = [cc EXCEPT !.req = [pc |-> "idle", id |-> "none", read |-> 0]]
  /\ UNCHANGED <<s3Configs, driverPool, last, poolOnly>>

PoolNext ==
  \/ PutConfigUpdate \/ PutConfigClear \/ DeleteConfigClear \/ DeleteConfigRow \/ PostConfig
  \/ GetDriverLookup \/ GetDriverReadConfig \/ GetDriverInsert \/ RequestDone

PoolSpec == PoolInit /\ [][PoolNext]_vars

-----------------------------------------------------------------------------
(* Specification UploadSpec: direct uploads of files with plain and with executable
   names into directories that exist or not, between listings, removals and updates *)

MissingDir == <<"/", "m", "/", "b", "/">>

NamedUploads == {[name |-> n, body |-> <<7>>, type |-> OctetStream] : n \in FileNames \cup ExecutableNames}

UploadInit ==
  /\ bucket \in ConcBuckets
  /\ dirCache = EmptyMap /\ files = {} /\ last = Idle
  /\ rq = Idle /\ rs = Idle /\ fc = Idle /\ fr = Idle /\ cc = Idle /\ searchCache = EmptyMap
  /\ s3Configs = StoredConfigs /\ driverPool = EmptyMap

UploadListing == ListDirectoryOn({RootDir, NestedDir})
UploadNamed   == UploadFileCall({RootDir, NestedDir, MissingDir}, NamedUploads) /\ UNCHANGED others
UploadRemove  == RemoveItemCall({NestedDir, <<"/", "m", "/", "x">>}) /\ UNCHANGED others
UploadUpdate  == UpdateFileCall({<<"/", "m", "/", "x">>, <<"/", "m", "/", "e">>}, {<<8>>}) /\ UNCHANGED others

UploadNext == UploadListing \/ UploadNamed \/ UploadRemove \/ UploadUpdate

UploadSpec == UploadInit /\ [][UploadNext]_vars

-----------------------------------------------------------------------------
(* Specification PageSpec: removeItem on directories whose keys come in pages *)

MaxPage == 3

PageKeys == {<<"a", "/">>, <<"a", "/", "x">>, <<"a", "/", "b", "/", "x">>, <<"a", "b">>, <<"x">>}

PageDirs == {RootDir, NestedDir, <<"/", "m", "/", "a", "/", "b", "/">>}

PageInit ==
  /\ bucket \in {[k \in ks |-> ObjectAt(k)] : ks \in SUBSET PageKeys}
  /\ dirCache = EmptyMap /\ files = {} /\ last = Idle
  /\ rq = Idle /\ rs = Idle /\ fc = Idle /\ fr = Idle /\ cc = Idle /\ searchCache = EmptyMap
  /\ s3Configs = StoredConfigs /\ driverPool = EmptyMap

\* removeItem on a directory, the provider answering pages of pageSize keys
RemoveDirectoryPaged ==
  \E p \in PageDirs, pageSize \in 1..MaxPage :
    \E res \in {removeItem(bucket, dirCache, files, p, pageSize)} :
      /\ bucket' = res.bucket /\ dirCache' = res.cache /\ files' = res.files
      /\ last' = [op |-> "removeItem", path |-> p, status |-> res.status, key |-> res.key,
                  pageSize |-> pageSize, removed |-> (DOMAIN bucket) \ (DOMAIN res.bucket)]
      /\ UNCHANGED others

\* createDirectory between the removals
PageCreateDirectory == CreateDirectoryCall({NestedDir}) /\ UNCHANGED others

PageNext == RemoveDirectoryPaged \/ PageCreateDirectory

PageSpec == PageInit /\ [][PageNext]_vars

-----------------------------------------------------------------------------
(* Specification InfoSpec: getFileInfo on files, directories and the mount root *)

InfoPaths == {RootDir, NestedDir, <<"/", "m", "/", "a">>, <<"/", "m", "/", "x">>,
              <<"/", "m", "/", "a", "/", "x">>, <<"/", "m", "/", "a", "/", "b">>}

InfoInit ==
  /\ bucket \in {[k \in ks |-> ObjectAt(k)] : ks \in SUBSET PageKeys}
  /\ dirCache = EmptyMap /\ files = {} /\ last = Idle
  /\ rq = Idle /\ rs = Idle /\ fc = Idle /\ fr = Idle /\ cc = Idle /\ searchCache = EmptyMap
  /\ s3Configs = StoredConfigs /\ driverPool = EmptyMap

\* getFileInfo on a path, the provider answering HEAD in one of its modes
GetFileInfoCall ==
  \E p \in InfoPaths, head \in HeadModes :
    \E res \in {getFileInfo(bucket, p, [head |-> head])} :
      /\ last' = [op |-> "getFileInfo", path |-> p, head |-> head, result |-> res]
      /\ UNCHANGED <<bucket, dirCache, files>>
      /\ UNCHANGED others

\* uploads and removals between the queries
InfoUpload == UploadFileCall({RootDir, NestedDir}, NamedUploads) /\ UNCHANGED others
InfoRemove == RemoveItemCall({<<"/", "m", "/", "x">>}) /\ UNCHANGED others

InfoNext == GetFileInfoCall \/ InfoUpload \/ InfoRemove

InfoSpec == InfoInit /\ [][InfoNext]_vars

-----------------------------------------------------------------------------
(* Specification VirtualSpec: listDirectory on paths under, above and beside the mounts *)

VirtualInit ==
  /\ rq \in Requests
  /\ rs = Idle
  /\ bucket = EmptyMap /\ dirCache = EmptyMap /\ files = {} /\ last = Idle
  /\ fc = Idle /\ fr = Idle /\ cc = Idle /\ searchCache = EmptyMap
  /\ s3Configs = StoredConfigs /\ driverPool = EmptyMap

\* listDirectory on the asked path with the principal's mounts
ListDirectoryOf ==
  /\ rs = Idle
  /\ rs' = listDirectoryOf(rq.mounts, rq.path)
  /\ UNCHANGED <<bucket, dirCache, files, last, rq, fc, s3Configs, driverPool, fr, cc, searchCache>>

\* the next call arrives
AskListing ==
  /\ rs # Idle
  /\ rq' \in Requests
  /\ rs' = Idle
  /\ UNCHANGED <<bucket, dirCache, files, last, fc, s3Configs, driverPool, fr, cc, searchCache>>

VirtualNext == ListDirectoryOf \/ AskListing

VirtualSpec == VirtualInit /\ [][VirtualNext]_vars

-----------------------------------------------------------------------------
(* fs service: the best-effort side effects and getFilePresignedUrl *)

\* which side effects fail: the mount's last-used update, the deletion of file records
EffectEnvs == [lastUsedFails : BOOLEAN, recordDeleteFails : BOOLEAN]

\* an update that lets its database error escape
LastUsedThrows(env) == IF env.lastUsedFails THEN "thrown" ELSE "updated"

\* webdavUtils.updateMountLastUsed: best-effort, a failure is logged and swallowed
updateMountLastUsed(env) == IF env.lastUsedFails THEN "swallowed" ELSE "updated"

\* `await updateMountLastUsed(db, mount.id)` inside a handler: a throw ends the handler there
Awaited(effect, thrown, done) == IF effect = "thrown" THEN thrown ELSE done

\* try { deleteFileRecordByStoragePath } catch: the records stay when the deletion fails
RecordsAfterRemove(env, f, after) == IF env.recordDeleteFails THEN f ELSE after

Tagged(out, lastUsed) ==
  [k \in DOMAIN out \cup {"lastUsed"} |-> IF k = "lastUsed" THEN lastUsed ELSE out[k]]

\* a handler around its last-used update: not reached, thrown at the update, or done
WithLastUsed(env, reached, atUpdate, done) ==
  IF ~reached THEN Tagged(done, "none")
  ELSE Awaited(updateMountLastUsed(env), Tagged(atUpdate, "thrown"), Tagged(done, updateMountLastUsed(env)))

listDirectoryWith(b, c, f, path, env) ==
  CHOOSE out \in {WithLastUsed(env, base.status = "ok",
                               Outcome("Internal", b, c, f, <<>>),
                               Outcome(base.status, b, base.cache, f, <<>>))
                    : base \in {listDirectory(b, c, path)}} : TRUE

getFileInfoWith(b, c, f, path, env) ==
  CHOOSE out \in {WithLastUsed(env, findMountPointByPath(Mounts, path).error = "none",
                               Outcome("Internal", b, c, f, <<>>),
                               Outcome(base.status, b, c, f, <<>>))
                    : base \in {getFileInfo(b, path, PlainProvider)}} : TRUE

downloadFileWith(b, c, f, path, env) ==
  CHOOSE out \in {WithLastUsed(env, findMountPointByPath(Mounts, path).error = "none",
                               Outcome("Internal", b, c, f, <<>>),
                               Outcome(base.status, b, c, f, <<>>))
                    : base \in {downloadFile(b, path)}} : TRUE

\* createDirectory: the update stands between the PUT and the invalidation
createDirectoryWith(b, c, f, path, env) ==
  CHOOSE out \in {WithLastUsed(env, base.status = "ok",
                               Outcome("Internal", base.bucket, c, f, base.key),
                               base)
                    : base \in {createDirectory(b, c, f, path)}} : TRUE

\* uploadFile: the update stands between the PUT and the file record and invalidation
uploadFileWith(b, c, f, path, file, env) ==
  CHOOSE out \in {WithLastUsed(env, base.status = "ok",
                               Outcome("Internal", base.bucket, c, f, base.key),
                               base)
                    : base \in {uploadFile(b, c, f, path, file)}} : TRUE

\* removeItem: the file records go best-effort, then the update, then the parent chain
removeItemWith(b, c, f, path, pageSize, env) ==
  CHOOSE out \in
    {WithLastUsed(env, base.status = "ok",
                  Outcome("Internal", base.bucket,
                          IF EndsWith(path, <<"/">>)
                          THEN CacheInvalidate(c, findMountPointByPath(Mounts, path).mount.id,
                                               findMountPointByPath(Mounts, path).subPath)
                          ELSE c,
                          RecordsAfterRemove(env, f, base.files), base.key),
                  Outcome(base.status, base.bucket, base.cache,
                          IF base.status = "ok" THEN RecordsAfterRemove(env, f, base.files) ELSE f,
                          base.key))
       : base \in {removeItem(b, c, f, path, pageSize)}} : TRUE

\* renameItem: the update stands between the storage change and the parent chains
renameItemWith(b, c, f, oldPath, newPath, env) ==
  CHOOSE out \in
    {WithLastUsed(env, base.status = "ok",
                  Outcome("Internal", base.bucket,
                          IF EndsWith(oldPath, <<"/">>)
                          THEN CacheInvalidate(CacheInvalidate(c, findMountPointByPath(Mounts, oldPath).mount.id,
                                                               findMountPointByPath(Mounts, oldPath).subPath),
                                               findMountPointByPath(Mounts, newPath).mount.id,
                                               findMountPointByPath(Mounts, newPath).subPath)
                          ELSE c,
                          f, base.key),
                  base)
       : base \in {renameItem(b, c, f, oldPath, newPath)}} : TRUE

\* a check that lets directory references through
PresignRefusesNothing(path) == FALSE

\* getFilePresignedUrl: "make sure the path points to a file, not to a directory"
PresignRefusesDirectory(path) == EndsWith(path, <<"/">>)

PresignRaised(status) == [status |-> status, url |-> <<>>, lastUsed |-> "none"]

\* getFilePresignedUrl: mount, storage type, stored config, file reference, then the URL
getFilePresignedUrl(path, configs, expiresIn, forceDownload, env) ==
  LET mountResult == findMountPointByPath(Mounts, path)
  IN  IF mountResult.error # "none" THEN PresignRaised(mountResult.error)
      ELSE IF mountResult.mount.storage_config_id \notin DOMAIN configs THEN PresignRaised("NotFound")
      ELSE IF PresignRefusesDirectory(path) THEN PresignRaised("BadRequest")
      ELSE Awaited(updateMountLastUsed(env),
                   [status |-> "Internal", url |-> <<>>, lastUsed |-> "thrown"],
                   [status |-> "ok",
                    url |-> <<normalizeS3SubPath(mountResult.subPath, S3Config, FALSE), expiresIn, forceDownload>>,
                    lastUsed |-> updateMountLastUsed(env)])

-----------------------------------------------------------------------------
(* Specification EffectSpec: the fs service while the best-effort side effects fail *)

NoFailure == [lastUsedFails |-> FALSE, recordDeleteFails |-> FALSE]

EffectDirs == {RootDir, NestedDir}

EffectFiles == {<<"/", "m", "/", "x">>, NestedFile}

PresignPaths == EffectFiles \cup EffectDirs \cup {<<"/", "q", "/">>}

EffectRenames ==
  {<<<<"/", "m", "/", "x">>, NestedFile>>, <<NestedDir, <<"/", "m", "/", "b", "/">>>>}

EffectInit ==
  /\ fc \in EffectEnvs
  /\ bucket \in {EmptyMap, [k \in {<<"a", "/">>, <<"x">>} |-> ObjectAt(k)]}
  /\ dirCache = EmptyMap /\ files = {} /\ last = Idle
  /\ rq = Idle /\ rs = Idle /\ fr = Idle /\ cc = Idle /\ searchCache = EmptyMap
  /\ s3Configs = StoredConfigs /\ driverPool = EmptyMap

\* what a step of the fs service leaves alone
effectOnly == <<rq, rs, fc, s3Configs, driverPool, fr, cc, searchCache>>

Called(op, path, newPath, res) ==
  [op |-> op, path |-> path, newPath |-> newPath, status |-> res.status, lastUsed |-> res.lastUsed]

EffectList ==
  \E p \in EffectDirs :
    \E res \in {listDirectoryWith(bucket, dirCache, files, p, fc)} :
      /\ Apply(res) /\ last' = Called("listDirectory", p, <<>>, res) /\ UNCHANGED effectOnly

EffectInfo ==
  \E p \in EffectFiles :
    \E res \in {getFileInfoWith(bucket, dirCache, files, p, fc)} :
      /\ Apply(res) /\ last' = Called("getFileInfo", p, <<>>, res) /\ UNCHANGED effectOnly

EffectDownload ==
  \E p \in EffectFiles :
    \E res \in {downloadFileWith(bucket, dirCache, files, p, fc)} :
      /\ Apply(res) /\ last' = Called("downloadFile", p, <<>>, res) /\ UNCHANGED effectOnly

EffectCreateDirectory ==
  \E p \in EffectDirs :
    \E res \in {createDirectoryWith(bucket, dirCache, files, p, fc)} :
      /\ Apply(res) /\ last' = Called("createDirectory", p, <<>>, res) /\ UNCHANGED effectOnly

EffectUpload ==
  \E p \in EffectDirs :
    \E res \in {uploadFileWith(bucket, dirCache, files, p, CHOOSE u \in OneUpload : TRUE, fc)} :
      /\ Apply(res) /\ last' = Called("uploadFile", p, <<>>, res) /\ UNCHANGED effectOnly

EffectRemove ==
  \E p \in EffectFiles \cup EffectDirs :
    \E res \in {removeItemWith(bucket, dirCache, files, p, DefaultMaxKeys, fc)} :
      /\ Apply(res) /\ last' = Called("removeItem", p, <<>>, res) /\ UNCHANGED effectOnly

EffectRename ==
  \E ab \in EffectRenames :
    \E res \in {renameItemWith(bucket, dirCache, files, ab[1], ab[2], fc)} :
      /\ Apply(res) /\ last' = Called("renameItem", ab[1], ab[2], res) /\ UNCHANGED effectOnly

\* getFilePresignedUrl for the default lifetime, inline or as a download
EffectPresign ==
  \E p \in PresignPaths, expiresIn \in {604800}, forceDownload \in BOOLEAN :
    \E res \in {getFilePresignedUrl(p, s3Configs, expiresIn, forceDownload, fc)} :
      /\ last' = [op |-> "getFilePresignedUrl", path |-> p, newPath |-> <<>>, status |-> res.status,
                  lastUsed |-> res.lastUsed, url |-> res.url,
                  expiresIn |-> expiresIn, forceDownload |-> forceDownload]
      /\ UNCHANGED <<bucket, dirCache, files>>
      /\ UNCHANGED effectOnly

\* an administrator deletes the stored S3 config of the mount, or stores it again
EffectConfigDelete ==
  /\ "c1" \in DOMAIN s3Configs
  /\ s3Configs' = deleteS3Config(s3Configs, "c1")
  /\ UNCHANGED <<bucket, dirCache, files, last, rq, rs, fc, driverPool, fr, cc, searchCache>>

EffectConfigStore ==
  /\ "c1" \notin DOMAIN s3Configs
  /\ s3Configs' = StoredConfigs
  /\ UNCHANGED <<bucket, dirCache, files, last, rq, rs, fc, driverPool, fr, cc, searchCache>>

EffectNext ==
  \/ EffectList
  \/ EffectInfo
  \/ EffectDownload
  \/ EffectCreateDirectory
  \/ EffectUpload
  \/ EffectRemove
  \/ EffectRename
  \/ EffectPresign
  \/ EffectConfigDelete
  \/ EffectConfigStore

EffectSpec == EffectInit /\ [][EffectNext]_vars

-----------------------------------------------------------------------------
(* renameItem step by step: one S3 request per step, under RenameSpec *)

\* longest key the provider accepts; CopyObject to a longer key fails
MaxRenameKey == 8

\* renameItem's checks with the same-mount comparison left out
RenameGateKindsOnly(ms, oldPath, newPath) ==
  LET oldMountResult == findMountPointByPath(ms, oldPath)
      newMountResult == findMountPointByPath(ms, newPath)
  IN  IF EndsWith(oldPath, <<"/">>) # EndsWith(newPath, <<"/">>) THEN "BadRequest"
      ELSE IF oldMountResult.error # "none" THEN oldMountResult.error
      ELSE IF newMountResult.error # "none" THEN newMountResult.error
      ELSE "none"

\* renameItem's checks before any storage request: same kind, both mounts resolve, same mount
RenameGate(ms, oldPath, newPath) ==
  LET oldIsDirectory == EndsWith(oldPath, <<"/">>)
      newIsDirectory == EndsWith(newPath, <<"/">>)
      oldMountResult == findMountPointByPath(ms, oldPath)
      newMountResult == findMountPointByPath(ms, newPath)
  IN  IF oldIsDirectory # newIsDirectory THEN "BadRequest"
      ELSE IF oldMountResult.error # "none" THEN oldMountResult.error
      ELSE IF newMountResult.error # "none" THEN newMountResult.error
      ELSE IF oldMountResult.mount.id # newMountResult.mount.id THEN "BadRequest"
      ELSE "none"

\* renameItem up to the first CopyObject or ListObjectsV2: the gate, the parent check, the probe
RenameAdmission(ms, b, oldPath, newPath) ==
  LET gate == RenameGate(ms, oldPath, newPath)
  IN  IF gate # "none" THEN gate
      ELSE LET isDirectory == EndsWith(oldPath, <<"/">>)
               s3NewPath   == normalizeS3SubPath(findMountPointByPath(ms, newPath).subPath, S3Config, isDirectory)
               parentPath  == Substring(s3NewPath, 0, LastIndexOf(s3NewPath, "/") + 1)
           IN  IF Includes(s3NewPath, "/") /\ ~checkDirectoryExists(b, parentPath) THEN "Conflict"
               ELSE IF RenameDestinationProbe(b, s3NewPath) = "throw" THEN "Internal"
               ELSE "none"

\* renameDirectory: targetKey = sourceKey.replace(oldPrefix, newPrefix); a file goes to the new key
RenameTargetKey(r, sourceKey) ==
  IF r.isDirectory THEN r.s3NewPath \o SubstringFrom(sourceKey, Len(r.s3OldPath)) ELSE r.s3NewPath

\* no rename in progress
RenameIdle == [pc |-> "idle", isDirectory |-> FALSE, mountId |-> "none",
               oldSubPath |-> <<>>, newSubPath |-> <<>>, s3OldPath |-> <<>>, s3NewPath |-> <<>>,
               page |-> {}, token |-> [set |-> FALSE, after |-> <<>>], truncated |-> FALSE,
               isEmpty |-> TRUE, pageSize |-> 1, origin |-> EmptyMap, copies |-> 0]

\* an object whose body is its own first key, so that two objects never hold the same content
Stored(k) == [body |-> k, ctype |-> IF EndsWith(k, <<"/">>) THEN DirectoryType ELSE OctetStream]

RenameBuckets ==
  {{}, {<<"x">>}, {<<"x">>, <<"y">>},
   {<<"a", "/">>, <<"a", "/", "x">>},
   {<<"a", "/", "x">>, <<"b", "/", "y">>},
   {<<"a", "/">>, <<"a", "/", "x">>, <<"b", "/">>},
   {<<"a", "/", "b", "/">>, <<"a", "/", "x">>},
   {<<"a", "/", "b", "/", "x">>, <<"a", "/", "b", "/", "b", "/", "x">>}}

StepRenames ==
  {<<<<"/", "m", "/", "x">>, <<"/", "m", "/", "y">>>>,
   <<<<"/", "m", "/", "x">>, <<"/", "m", "/", "a", "/", "x">>>>,
   <<<<"/", "m", "/", "x">>, <<"/", "m", "/", "a", "/">>>>,
   <<<<"/", "m", "/", "a", "/">>, <<"/", "m", "/", "x">>>>,
   <<<<"/", "q", "/", "x">>, <<"/", "m", "/", "a", "/">>>>,
   <<<<"/", "m", "/", "x">>, <<"/", "n", "/", "x">>>>,
   <<<<"/", "m", "/", "a", "/">>, <<"/", "n", "/", "a", "/">>>>,
   <<<<"/", "m", "/", "a", "/">>, <<"/", "m", "/", "b", "/">>>>,
   <<<<"/", "m", "/", "a", "/">>, <<"/", "m", "/", "a", "/", "b", "/">>>>,
   <<<<"/", "m", "/", "a", "/", "b", "/">>, <<"/", "m", "/", "a", "/">>>>}

RenameInit ==
  /\ bucket \in {[k \in ks |-> Stored(k)] : ks \in RenameBuckets}
  /\ dirCache = EmptyMap /\ files = {} /\ last = Idle
  /\ rq = Idle /\ rs = Idle /\ fc = Idle /\ fr = Idle /\ cc = RenameIdle /\ searchCache = EmptyMap
  /\ s3Configs = StoredConfigs /\ driverPool = EmptyMap

renameOnly == <<files, rq, rs, fc, fr, searchCache, s3Configs, driverPool>>

RenameCalled(r, status) ==
  [op |-> "renameItem", path |-> r.path, newPath |-> r.newPath, status |-> status]

\* the request as renameItem holds it once the checks have passed
RenameRequest(oldPath, newPath, pageSize, b) ==
  LET isDirectory == EndsWith(oldPath, <<"/">>)
      oldMount    == findMountPointByPath(Mounts, oldPath)
      newMount    == findMountPointByPath(Mounts, newPath)
      s3OldPath   == normalizeS3SubPath(oldMount.subPath, S3Config, isDirectory)
      s3NewPath   == normalizeS3SubPath(newMount.subPath, S3Config, isDirectory)
      sources     == IF isDirectory THEN S3List(b, s3OldPath) ELSE {s3OldPath} \cap DOMAIN b
  IN  [pc |-> IF isDirectory THEN "list" ELSE "copy", isDirectory |-> isDirectory,
       mountId |-> oldMount.mount.id, oldSubPath |-> oldMount.subPath, newSubPath |-> newMount.subPath,
       s3OldPath |-> s3OldPath, s3NewPath |-> s3NewPath,
       page |-> IF isDirectory THEN {} ELSE {s3OldPath},
       token |-> [set |-> FALSE, after |-> <<>>], truncated |-> FALSE, isEmpty |-> TRUE,
       pageSize |-> pageSize, origin |-> [k \in sources |-> b[k]], copies |-> 0,
       path |-> oldPath, newPath |-> newPath]

\* renameItem is called: it is refused, or it goes on to its first storage request
RenameBegin ==
  /\ cc.pc = "idle"
  /\ \E ab \in StepRenames, pageSize \in 1..MaxPage :
       \E admission \in {RenameAdmission(Mounts, bucket, ab[1], ab[2])} :
         IF admission # "none"
         THEN /\ last' = [op |-> "renameItem", path |-> ab[1], newPath |-> ab[2], status |-> admission]
              /\ cc' = RenameIdle
         ELSE /\ cc' = RenameRequest(ab[1], ab[2], pageSize, bucket)
              /\ last' = [op |-> "renameItem", path |-> ab[1], newPath |-> ab[2], status |-> "started"]
  /\ UNCHANGED <<bucket, dirCache>>
  /\ UNCHANGED renameOnly

\* renameDirectory: one ListObjectsV2 page under the old prefix
RenameListPage ==
  /\ cc.pc = "list"
  /\ \E listResponse \in {S3ListPage(bucket, cc.s3OldPath, cc.token, cc.pageSize)} :
       cc' = [cc EXCEPT !.page = listResponse.Contents,
                        !.isEmpty = cc.isEmpty /\ listResponse.Contents = {},
                        !.truncated = listResponse.IsTruncated,
                        !.token = IF listResponse.IsTruncated THEN listResponse.NextContinuationToken
                                  ELSE [set |-> FALSE, after |-> <<>>],
                        !.pc = IF listResponse.Contents # {} THEN "copy"
                               ELSE IF listResponse.IsTruncated THEN "list" ELSE "finish"]
  /\ UNCHANGED <<bucket, dirCache, last>>
  /\ UNCHANGED renameOnly

\* CopyObject of the next key of the page; an error ends the rename
RenameCopy ==
  /\ cc.pc = "copy"
  /\ \E fails \in BOOLEAN :
       \E sourceKey \in {MinKey(cc.page)} :
         \E targetKey \in {RenameTargetKey(cc, sourceKey)} :
           IF fails \/ Len(targetKey) > MaxRenameKey \/ S3CopyStatus(bucket, sourceKey, targetKey) # "ok"
           THEN /\ bucket' = bucket
                /\ cc' = [cc EXCEPT !.pc = "idle"]
                /\ last' = RenameCalled(cc, "Internal")
           ELSE /\ bucket' = S3Copy(bucket, sourceKey, targetKey)
                /\ cc' = [cc EXCEPT !.pc = "delete", !.copies = @ + 1]
                /\ last' = last
  /\ UNCHANGED dirCache
  /\ UNCHANGED renameOnly

\* DeleteObject of the key just copied; an error ends the rename
RenameDelete ==
  /\ cc.pc = "delete"
  /\ \E fails \in BOOLEAN :
       \E sourceKey \in {MinKey(cc.page)} :
         IF fails
         THEN /\ bucket' = bucket
              /\ cc' = [cc EXCEPT !.pc = "idle"]
              /\ last' = RenameCalled(cc, "Internal")
         ELSE /\ bucket' = S3Delete(bucket, sourceKey)
              /\ cc' = [cc EXCEPT !.page = cc.page \ {sourceKey},
                                  !.pc = IF cc.page # {sourceKey} THEN "copy"
                                         ELSE IF cc.isDirectory /\ cc.truncated THEN "list"
                                         ELSE "finish"]
              /\ last' = last
  /\ UNCHANGED dirCache
  /\ UNCHANGED renameOnly

\* the end of renameItem: NotFound for an empty source directory, else the invalidations
RenameFinish ==
  /\ cc.pc = "finish"
  /\ cc' = [cc EXCEPT !.pc = "idle"]
  /\ IF cc.isDirectory /\ cc.isEmpty
     THEN /\ last' = RenameCalled(cc, "NotFound")
          /\ dirCache' = dirCache
     ELSE /\ last' = RenameCalled(cc, "ok")
          /\ dirCache' = IF cc.isDirectory
                         THEN RenameInvalidate(CacheInvalidate(CacheInvalidate(dirCache, cc.mountId, cc.oldSubPath),
                                                               cc.mountId, cc.newSubPath),
                                               cc.mountId, cc.oldSubPath, cc.newSubPath, TRUE)
                         ELSE RenameInvalidate(dirCache, cc.mountId, cc.oldSubPath, cc.newSubPath, FALSE)
  /\ UNCHANGED bucket
  /\ UNCHANGED renameOnly

\* a listing between two renames fills the directory cache
RenameListing ==
  /\ cc.pc = "idle"
  /\ \E p \in {RootDir, NestedDir} :
       \E res \in {listDirectory(bucket, dirCache, p)} :
         /\ dirCache' = res.cache
         /\ last' = [op |-> "listDirectory", path |-> p, status |-> res.status]
  /\ UNCHANGED <<bucket, cc>>
  /\ UNCHANGED renameOnly

RenameNext ==
  RenameBegin \/ RenameListPage \/ RenameCopy \/ RenameDelete \/ RenameFinish \/ RenameListing

RenameSpec == RenameInit /\ [][RenameNext]_vars

\* every request of a rename in progress is answered: the awaited S3 call returns or throws
RenameFairSpec ==
  RenameSpec /\ WF_vars(RenameListPage) /\ WF_vars(RenameCopy) /\ WF_vars(RenameDelete) /\ WF_vars(RenameFinish)

-----------------------------------------------------------------------------
(* The Workers entry point, under FetchSpec *)

\* url.pathname.split("/")
RECURSIVE PathParts(_)
PathParts(s) ==
  IF ~Includes(s, "/") THEN <<s>>
  ELSE LET i == CHOOSE i \in 1..Len(s) : s[i] = "/" /\ \A j \in 1..(i - 1) : s[j] # "/"
       IN  <<SubSeq(s, 1, i - 1)>> \o PathParts(SubSeq(s, i + 1, Len(s)))

\* getWebDAVConfig(): the methods and protocol headers of the WebDAV surface
WebDAVConfig ==
  [SUPPORTED_METHODS |-> "OPTIONS, GET, HEAD, PUT, DELETE, PROPFIND, PROPPATCH, MKCOL, COPY, MOVE, LOCK, UNLOCK",
   RESPONSE_HEADERS  |-> [DAV |-> "1,2", MSAuthorVia |-> "DAV", MSExtensions |-> "1", XMSDAVEXT |-> "1"],
   ALLOW_ORIGIN |-> "*", ALLOW_HEADERS |-> "Authorization, Content-Type, Depth"]

\* Object.assign-like: the entries of g are set on f
SetAll(f, g) == [k \in (DOMAIN f) \cup (DOMAIN g) |-> IF k \in DOMAIN g THEN g[k] ELSE f[k]]

\* the webdavHeaders object: protocol headers, then the platform's headers, then CORS
WebdavHeaders(config, platformHeaders, corsEnabled) ==
  LET protocol == [k \in {"Allow", "Public", "DAV", "MS-Author-Via",
                          "Microsoft-Server-WebDAV-Extensions", "X-MSDAVEXT"} |->
                     CASE k = "Allow" -> config.SUPPORTED_METHODS
                       [] k = "Public" -> config.SUPPORTED_METHODS
                       [] k = "DAV" -> config.RESPONSE_HEADERS.DAV
                       [] k = "MS-Author-Via" -> config.RESPONSE_HEADERS.MSAuthorVia
                       [] k = "Microsoft-Server-WebDAV-Extensions" -> config.RESPONSE_HEADERS.MSExtensions
                       [] OTHER -> config.RESPONSE_HEADERS.XMSDAVEXT]
      cors     == [k \in {"Access-Control-Allow-Origin", "Access-Control-Allow-Methods",
                          "Access-Control-Allow-Headers", "Access-Control-Max-Age"} |->
                     CASE k = "Access-Control-Allow-Origin" -> config.ALLOW_ORIGIN
                       [] k = "Access-Control-Allow-Methods" -> config.SUPPORTED_METHODS
                       [] k = "Access-Control-Allow-Headers" -> config.ALLOW_HEADERS
                       [] OTHER -> "86400"]
  IN  SetAll(SetAll(protocol, platformHeaders), IF corsEnabled THEN cors ELSE EmptyMap)

\* every header of webdavHeaders is set, whatever the response holds already
SetEveryHeader(headers, webdavHeaders) == SetAll(headers, webdavHeaders)

\* only the headers the response does not have yet are set
SetMissingHeaders(headers, webdavHeaders) == SetAll(webdavHeaders, headers)

\* every pathname that begins with /dav
BeginsWithDav(pathname) == StartsWith(pathname, <<"/", "d", "a", "v">>)

\* url.pathname === "/dav" || url.pathname.startsWith("/dav/")
IsWebDAVPath(pathname) ==
  pathname = <<"/", "d", "a", "v">> \/ StartsWith(pathname, <<"/", "d", "a", "v", "/">>)

\* what app.fetch does with the request: a response, a synchronous throw, a rejected promise
AppResponses ==
  {[kind |-> "response", status |-> 207, headers |-> [k \in ks |-> "app"]] :
     ks \in SUBSET {"Content-Type", "Allow", "DAV", "X-MSDAVEXT"}}

AppAnswers == AppResponses \cup {[kind |-> "throws"], [kind |-> "rejects"]}

\* the Workers fetch handler, after the database check
fetch(pathname, app, env) ==
  LET pathParts == PathParts(pathname)
  IN  IF IsWebDAVPath(pathname)
      THEN IF app.kind = "response"
           THEN [kind |-> "response", status |-> app.status,
                 headers |-> SetMissingHeaders(app.headers,
                               WebdavHeaders(WebDAVConfig, env.platformHeaders, env.corsEnabled))]
           ELSE [kind |-> "response", status |-> 500, headers |-> [k \in {"Content-Type"} |-> "text/plain"]]
      ELSE IF Len(pathParts) >= 4 /\ pathParts[2] = <<"a", "p", "i">> /\ pathParts[3] = <<"r", "a", "w">>
           THEN IF app.kind = "response" THEN app
                ELSE IF app.kind = "rejects" THEN [kind |-> "rejected"]
                ELSE [kind |-> "response", status |-> 500, headers |-> [k \in {"Content-Type"} |-> "application/json"]]
      ELSE IF app.kind = "response" THEN app
           ELSE IF app.kind = "rejects" THEN [kind |-> "rejected"]
           ELSE [kind |-> "response", status |-> 500, headers |-> [k \in {"Content-Type"} |-> "application/json"]]

FetchPathnames ==
  {<<"/", "d", "a", "v">>, <<"/", "d", "a", "v", "/">>, <<"/", "d", "a", "v", "/", "x">>,
   <<"/", "d", "a", "v", "x">>, <<"/", "a", "p", "i", "/", "r", "a", "w", "/", "s">>,
   <<"/", "a", "p", "i", "/", "x">>}

FetchEnvs ==
  [corsEnabled : BOOLEAN, platformHeaders : {EmptyMap, [k \in {"Server"} |-> "workers"]}]

FetchInit ==
  /\ bucket = EmptyMap /\ dirCache = EmptyMap /\ files = {} /\ last = Idle
  /\ rq = Idle /\ rs = Idle /\ fc \in FetchEnvs /\ fr = Idle
  /\ cc = [isDbInitialized |-> FALSE] /\ searchCache = EmptyMap
  /\ s3Configs = StoredConfigs /\ driverPool = EmptyMap

\* one request: the database is checked on the first request only, its failure is swallowed
Fetch ==
  \E pathname \in FetchPathnames, app \in AppAnswers, initFails \in BOOLEAN :
    /\ cc' = [isDbInitialized |-> TRUE]
    /\ last' = [op |-> "fetch", pathname |-> pathname, app |-> app,
                dbCheck |-> IF cc.isDbInitialized THEN "skipped"
                            ELSE IF initFails THEN "failed" ELSE "done",
                response |-> fetch(pathname, app, fc)]
    /\ UNCHANGED <<bucket, dirCache, files, rq, rs, fc, fr, searchCache, s3Configs, driverPool>>

FetchNext == Fetch

FetchSpec == FetchInit /\ [][FetchNext]_vars

-----------------------------------------------------------------------------
(* Concurrent requests in one Workers process, under WorkerSpec *)

MaxRequests == 3    \* requests in flight in one process

\* a handler that leaves the flag as it found it when it starts the check
FlagUntouched(flag) == flag

\* isDbInitialized = true, the statement before await checkAndInitDatabase(env.DB)
FlagWhenInvoking(flag) == TRUE

WorkerPathnames == {<<"/", "d", "a", "v", "/", "x">>, <<"/", "a", "p", "i", "/", "x">>}

WorkerAnswers ==
  {[kind |-> "response", status |-> 207, headers |-> [k \in {"Allow"} |-> "app"]],
   [kind |-> "throws"], [kind |-> "rejects"]}

\* rq: where each request stands; cc: the module-level flag and the database check
WorkerInit ==
  /\ rq = [r \in 1..MaxRequests |-> [pc |-> "new", pathname |-> <<>>, dbCheck |-> "none"]]
  /\ cc = [isDbInitialized |-> FALSE, initCalls |-> 0, initState |-> "none"]
  /\ fc \in FetchEnvs
  /\ bucket = EmptyMap /\ dirCache = EmptyMap /\ files = {} /\ last = Idle
  /\ rs = Idle /\ fr = Idle /\ searchCache = EmptyMap
  /\ s3Configs = StoredConfigs /\ driverPool = EmptyMap

workerOnly == <<bucket, dirCache, files, rs, fc, fr, searchCache, s3Configs, driverPool>>

\* fetch up to its first await: with the flag unset the flag is set and the check is
\* started; with the flag set the handler goes straight on to app.fetch
WorkerArrive ==
  \E r \in 1..MaxRequests, pathname \in WorkerPathnames :
    /\ rq[r].pc = "new"
    /\ IF ~cc.isDbInitialized
       THEN /\ cc' = [isDbInitialized |-> FlagWhenInvoking(cc.isDbInitialized),
                      initCalls |-> cc.initCalls + 1, initState |-> "running"]
            /\ rq' = [rq EXCEPT ![r] = [pc |-> "awaitsCheck", pathname |-> pathname, dbCheck |-> "started"]]
       ELSE /\ cc' = cc
            /\ rq' = [rq EXCEPT ![r] = [pc |-> "inApp", pathname |-> pathname, dbCheck |-> "skipped"]]
    /\ UNCHANGED last
    /\ UNCHANGED workerOnly

\* checkAndInitDatabase settles: it has initialised the database, or it has thrown
WorkerCheckSettles ==
  /\ cc.initState = "running"
  /\ \E outcome \in {"done", "failed"} : cc' = [cc EXCEPT !.initState = outcome]
  /\ UNCHANGED <<rq, last>>
  /\ UNCHANGED workerOnly

\* the request that awaited the check goes on to app.fetch, whether the check threw or not
WorkerResume ==
  \E r \in 1..MaxRequests :
    /\ rq[r].pc = "awaitsCheck"
    /\ cc.initState \in {"done", "failed"}
    /\ rq' = [rq EXCEPT ![r].pc = "inApp", ![r].dbCheck = cc.initState]
    /\ UNCHANGED <<cc, last>>
    /\ UNCHANGED workerOnly

\* app.fetch settles and the handler returns its response
WorkerRespond ==
  \E r \in 1..MaxRequests, app \in WorkerAnswers :
    /\ rq[r].pc = "inApp"
    /\ rq' = [rq EXCEPT ![r].pc = "answered"]
    /\ last' = [op |-> "fetch", pathname |-> rq[r].pathname, app |-> app, dbCheck |-> rq[r].dbCheck,
                response |-> fetch(rq[r].pathname, app, fc)]
    /\ UNCHANGED cc
    /\ UNCHANGED workerOnly

WorkerNext == WorkerArrive \/ WorkerCheckSettles \/ WorkerResume \/ WorkerRespond

WorkerSpec == WorkerInit /\ [][WorkerNext]_vars

-----------------------------------------------------------------------------
(* Concurrent createDirectory calls, interleaved at their awaits, under MkdirSpec *)

MaxCallers == 2     \* createDirectory calls in flight

MkdirPaths == {NestedDir, <<"/", "m", "/", "a", "/", "b", "/">>, <<"/", "m", "/", "b", "/">>}

MkdirCaches(b) ==
  {EmptyMap, CacheSet(EmptyMap, Mount1.id, <<"/">>, ListingItems(b, <<"/">>, S3Config))}

\* rq: each call with its path, its position and the status it returned
MkdirInit ==
  /\ bucket \in ConcBuckets
  /\ dirCache \in MkdirCaches(bucket)
  /\ rq \in [1..MaxCallers -> {[pc |-> "start", path |-> p, status |-> "none"] : p \in MkdirPaths}]
  /\ files = {} /\ last = Idle /\ cc = Idle
  /\ rs = Idle /\ fc = Idle /\ fr = Idle /\ searchCache = EmptyMap
  /\ s3Configs = StoredConfigs /\ driverPool = EmptyMap

mkdirOnly == <<files, last, cc, rs, fc, fr, searchCache, s3Configs, driverPool>>

MkdirSubPath(path) == findMountPointByPath(Mounts, normalizePath(path, TRUE)).subPath

MkdirKey(path) == normalizeS3SubPath(MkdirSubPath(path), S3Config, TRUE)

MkdirReturns(i, status) == rq' = [rq EXCEPT ![i].pc = "returned", ![i].status = status]

\* createDirectory up to the answer of checkDirectoryExists for the parent
MkdirCheckParent ==
  \E i \in 1..MaxCallers :
    /\ rq[i].pc = "start"
    /\ LET s3SubPath  == MkdirKey(rq[i].path)
           parentPath == Substring(s3SubPath, 0, LastIndexOfFrom(s3SubPath, "/", Len(s3SubPath) - 2) + 1)
       IN  IF SegmentCount(s3SubPath) > 1 /\ ~checkDirectoryExists(bucket, parentPath)
           THEN MkdirReturns(i, "Conflict")
           ELSE rq' = [rq EXCEPT ![i].pc = "probe"]
    /\ UNCHANGED <<bucket, dirCache>>
    /\ UNCHANGED mkdirOnly

\* the HeadObject probe of the target key answers
MkdirProbe ==
  \E i \in 1..MaxCallers :
    /\ rq[i].pc = "probe"
    /\ \E probe \in {CreateDirectoryProbe(bucket, MkdirKey(rq[i].path))} :
         IF probe = "ok" THEN MkdirReturns(i, "Conflict")
         ELSE IF probe = "404" THEN rq' = [rq EXCEPT ![i].pc = "put"]
         ELSE MkdirReturns(i, "Internal")
    /\ UNCHANGED <<bucket, dirCache>>
    /\ UNCHANGED mkdirOnly

\* the PutObject of the empty placeholder takes effect
MkdirPut ==
  \E i \in 1..MaxCallers :
    /\ rq[i].pc = "put"
    /\ bucket' = S3Put(bucket, MkdirKey(rq[i].path), [body |-> <<>>, ctype |-> DirectoryType])
    /\ rq' = [rq EXCEPT ![i].pc = "written"]
    /\ UNCHANGED dirCache
    /\ UNCHANGED mkdirOnly

\* after updateMountLastUsed the parent's cache chain is dropped and the call returns
MkdirInvalidate ==
  \E i \in 1..MaxCallers :
    /\ rq[i].pc = "written"
    /\ dirCache' = CreateDirectoryInvalidate(dirCache, Mount1.id, MkdirSubPath(rq[i].path))
    /\ MkdirReturns(i, "ok")
    /\ UNCHANGED bucket
    /\ UNCHANGED mkdirOnly

MkdirNext == MkdirCheckParent \/ MkdirProbe \/ MkdirPut \/ MkdirInvalidate

MkdirSpec == MkdirInit /\ [][MkdirNext]_vars

-----------------------------------------------------------------------------
(* Specification RecordSpec: direct uploads whose PutObject or whose INSERT INTO
   files may be refused, next to cached listings *)

RecordEnvs == [putFails : BOOLEAN, insertFails : BOOLEAN]

\* handleFsError: an HTTPException passes, any other error becomes INTERNAL_ERROR
handleFsError(thrown) ==
  IF thrown \in {"BadRequest", "NotFound", "Forbidden", "Conflict"} THEN thrown ELSE "Internal"

\* uploadFile (direct): the PUT, the last-used update, the file record, the invalidation;
\* an error of the PUT or of the INSERT is rethrown by the inner catch as it is
uploadFileRecording(b, c, f, path, file, env) ==
  CHOOSE out \in
    {IF base.status # "ok" THEN base
     ELSE IF env.putFails THEN Outcome(handleFsError("S3ServiceException"), b, c, f, base.key)
     ELSE IF env.insertFails THEN Outcome(handleFsError("D1_ERROR"), base.bucket, c, f, base.key)
     ELSE base
       : base \in {uploadFile(b, c, f, path, file)}} : TRUE

RecordInit ==
  /\ bucket \in ConcBuckets
  /\ dirCache = EmptyMap /\ files = {} /\ last = Idle
  /\ rq = Idle /\ rs = Idle /\ fc = Idle /\ fr = Idle /\ cc = Idle /\ searchCache = EmptyMap
  /\ s3Configs = StoredConfigs /\ driverPool = EmptyMap

RecordListing == ListDirectoryOn({RootDir, NestedDir})

RecordUpload ==
  \E p \in {RootDir, NestedDir, MissingDir}, env \in RecordEnvs :
    \E res \in {uploadFileRecording(bucket, dirCache, files, p, CHOOSE u \in OneUpload : TRUE, env)} :
      /\ Apply(res)
      /\ last' = [op |-> "uploadFile", path |-> p, env |-> env, status |-> res.status, key |-> res.key,
                  before |-> [bucket |-> bucket, files |-> files, cache |-> dirCache]]
      /\ UNCHANGED others

RecordRemove == RemoveItemCall({NestedDir, <<"/", "m", "/", "x">>}) /\ UNCHANGED others

RecordNext == RecordListing \/ RecordUpload \/ RecordRemove

RecordSpec == RecordInit /\ [][RecordNext]_vars

-----------------------------------------------------------------------------
(* Claims about the directory cache, checked under CacheSpec *)

MutationOps == {"uploadFile", "createDirectory", "removeItem", "renameItem", "updateFile"}

\* the sub-path under the mount of a logical path
SubPathOf(p) == findMountPointByPath(Mounts, p).subPath

\* the sub-paths the last call names, each with its ancestors up to "/"
TouchedChain ==
  AncestorChain(SubPathOf(last.path))
    \cup (IF last.op = "renameItem" THEN AncestorChain(SubPathOf(last.newPath)) ELSE {})

\* as TouchedChain, but for createDirectory from the parent of the new directory
GuaranteedChain ==
  IF last.op = "createDirectory" THEN AncestorChain(ParentDir(SubPathOf(last.path)))
  ELSE TouchedChain

LastMutationOk == last.op \in MutationOps /\ last.status = "ok"

\* C1 as stated: after a successful mutation on sub-path s of mount m the cache holds
\* no entry (m, a) for a = s or an ancestor of s up to "/" (rename: old and new path)
C1_AsStated ==
  LastMutationOk => \A k \in DOMAIN dirCache : ~(k[1] = Mount1.id /\ k[2] \in TouchedChain)

\* C1: after a successful uploadFile, removeItem, renameItem or updateFile on sub-path s
\* the cache holds no entry for s or an ancestor of s (rename: old and new path); after
\* a successful createDirectory it holds none for the parent of s or an ancestor of it
C1_InvalidatedChain ==
  LastMutationOk => \A k \in DOMAIN dirCache : ~(k[1] = Mount1.id /\ k[2] \in GuaranteedChain)

\* an upload into a nested directory has dropped the listing of it and of the root
C1_Witness ==
  /\ last.op = "uploadFile" /\ last.status = "ok"
  /\ last.dropped = {<<Mount1.id, <<"/", "a", "/">>>>, <<Mount1.id, <<"/">>>>}

-----------------------------------------------------------------------------
(* Claims about path resolution, checked under ResolveSpec *)

\* the path of the request as a directory path, and the mounts whose path prefixes it
AskedPath == normalizePath(rq.path, TRUE)

Prefixing ==
  {i \in 1..Len(rq.mounts) :
     AskedPath = rq.mounts[i].mount_path \o <<"/">>
       \/ StartsWith(AskedPath, rq.mounts[i].mount_path \o <<"/">>)}

\* C2: listDirectory resolves p to the mount with the longest mount path m such that p
\* equals m + "/" or starts with m + "/", never to a shorter one when a longer one
\* matches, and hands on the remainder of p, with a leading "/", as the sub-path
C2_LongestPrefix ==
  rs # Idle =>
    IF Prefixing = {} THEN rs.isVirtualPath
    ELSE /\ ~rs.isVirtualPath
         /\ \E i \in Prefixing : rs.matchingMount = rq.mounts[i]
         /\ \A j \in Prefixing : Len(rq.mounts[j].mount_path) <= Len(rs.matchingMount.mount_path)
         /\ StartsWith(rs.subPath, <<"/">>)
         /\ rs.matchingMount.mount_path \o rs.subPath = AskedPath

\* the longer of two matching mounts is chosen although the shorter one is listed first
C2_Witness ==
  /\ rs # Idle /\ ~rs.isVirtualPath
  /\ Len(rq.mounts) >= 2 /\ rq.mounts[1].id = "m1" /\ 1 \in Prefixing
  /\ rs.matchingMount.id = "m2"
  /\ rs.subPath = <<"/", "x", "/">>

-----------------------------------------------------------------------------
(* Claims about the stored objects, checked under Spec *)

\* the object key a file path names
FileKeyOf(p) == normalizeS3SubPath(SubPathOf(p), S3Config, FALSE)

\* a step that is a successful renameItem of a file
FileRenamed ==
  /\ last'.op = "renameItem" /\ last'.status = "ok"
  /\ ~EndsWith(last'.path, <<"/">>)

\* C3: after a successful renameItem(a, b) of a file the object at a is gone, the
\* object at b exists, and b holds the content and size a held before the call
C3_RenameLaw ==
  [][FileRenamed =>
       LET a == FileKeyOf(last'.path)
           b == FileKeyOf(last'.newPath)
       IN  /\ a \in DOMAIN bucket
           /\ a \notin DOMAIN bucket'
           /\ b \in DOMAIN bucket'
           /\ bucket'[b].body = bucket[a].body
           /\ Len(bucket'[b].body) = Len(bucket[a].body)]_vars

\* a two-byte file has been renamed into a directory: it is at the new key only
C3_Witness ==
  /\ last.op = "renameItem" /\ last.status = "ok"
  /\ last.path = <<"/", "m", "/", "x">> /\ last.newPath = <<"/", "m", "/", "a", "/", "x">>
  /\ <<"x">> \notin DOMAIN bucket
  /\ <<"a", "/", "x">> \in DOMAIN bucket /\ bucket[<<"a", "/", "x">>].body = <<7, 7>>

\* C5 as stated: after a successful direct uploadFile(p, bytes), downloadFile(p) reads
\* the key uploadFile wrote and returns bytes, and getFileInfo(p) reports size =
\* len(bytes) and isDirectory = false
C5_RoundTrip ==
  (last.op = "uploadFile" /\ last.status = "ok") =>
    LET d == downloadFile(bucket, last.path)
        i == getFileInfo(bucket, last.path, PlainProvider)
    IN  /\ d.status = "ok" /\ d.key = last.key /\ d.body = last.file.body
        /\ i.status = "ok" /\ i.size = Len(last.file.body) /\ ~i.isDirectory

\* the mount resolution and checks renameItem makes before it probes the destination
RenameProbes(oldPath, newPath) ==
  /\ EndsWith(oldPath, <<"/">>) = EndsWith(newPath, <<"/">>)
  /\ findMountPointByPath(Mounts, oldPath).error = "none"
  /\ findMountPointByPath(Mounts, newPath).error = "none"

\* a renameItem step of an existing file onto another key that holds an object
RenamedOntoExisting ==
  /\ last'.op = "renameItem"
  /\ ~EndsWith(last'.path, <<"/">>)
  /\ RenameProbes(last'.path, last'.newPath)
  /\ last'.path # last'.newPath
  /\ FileKeyOf(last'.path) \in DOMAIN bucket
  /\ FileKeyOf(last'.newPath) \in DOMAIN bucket

\* C9 as stated (for an existing file a and b # a): renameItem(a, b) fails with Conflict
\* when an object exists at b, and then no object is copied, overwritten or deleted
C9_ConflictOnExisting ==
  [][RenamedOntoExisting => (last'.status = "Conflict" /\ bucket' = bucket)]_vars

-----------------------------------------------------------------------------
(* Claims about one directory path, checked under DirSpec *)

\* the placeholder key of the path under study and the key of its parent directory
TargetKey == normalizeS3SubPath(SubPathOf(rq.path), S3Config, TRUE)
TargetParentKey == Substring(TargetKey, 0, LastIndexOfFrom(TargetKey, "/", Len(TargetKey) - 2) + 1)

\* nothing is stored at or under the path
TargetAbsent == S3List(bucket, TargetKey) = {}

\* the path lies in the root of the mount, or its parent has a placeholder or a key under it
TargetParentPresent ==
  TargetParentKey = <<>> \/ S3List(bucket, TargetParentKey) # {}

\* C4: in a history of createDirectory(p) and removeItem(p) calls, with the parent of p
\* present, createDirectory(p) succeeds when p does not exist, fails with Conflict on
\* every call after a success until a removeItem(p) succeeds, and a failing call
\* leaves the stored objects unchanged
C4_CreateOnce ==
  [][last'.op = "createDirectory" =>
       /\ (rs.made => last'.status = "Conflict")
       /\ (TargetAbsent /\ TargetParentPresent => last'.status = "ok")
       /\ (last'.status # "ok" => bucket' = bucket)
       /\ (last'.status = "ok" => TargetKey \in DOMAIN bucket')]_vars

\* a nested directory was made, and the call after that has failed with Conflict
C4_Witness ==
  /\ rq.path = <<"/", "m", "/", "a", "/", "b", "/">>
  /\ rs.made
  /\ last.op = "createDirectory" /\ last.status = "Conflict"
  /\ TargetKey \in DOMAIN bucket /\ TargetParentPresent

-----------------------------------------------------------------------------
(* Claims about the facade, checked under FacadeSpec *)

\* the capability an operation needs: the one its method checks; Reader for the reads
\* exists and getStats
RequiredCapability(op) ==
  IF op \in {"exists", "getStats"} THEN "READER" ELSE CheckedCapability(op)

\* the last call went to a mounted path whose driver lacks the capability the call needs
LacksCapability ==
  /\ fr # Idle /\ fr.op # "batchRemoveItems"
  /\ fr.path # <<>> /\ getDriverByPath(fr.path).error = "none"
  /\ RequiredCapability(fr.op) \notin fc.caps

\* C6 as stated: an operation on a driver that lacks the capability it requires fails
\* with Unimplemented and no driver method is invoked
C6_Gating == LacksCapability => (fr.status = "Unimplemented" /\ fr.invoked = {})

\* C7 as stated (for a driver that can write): batchRemoveItems(ps) returns a result
\* with success + len(failed) = len(ps), for every list ps, also one whose paths fail
\* to resolve or to delete
C7_BatchTotality ==
  (fr # Idle /\ fr.op = "batchRemoveItems" /\ "WRITER" \in fc.caps) =>
    /\ fr.returned
    /\ fr.result.success + Len(fr.result.failed) = Len(fr.paths)

-----------------------------------------------------------------------------
(* Claims about searchFiles, checked under SearchSpec *)

\* the mounts a principal may access: the active mounts an admin owns, the active
\* mounts an API key is permitted
AccessibleTo(principal) ==
  {SearchMounts[i].id : i \in {i \in 1..Len(SearchMounts) :
     /\ SearchMounts[i].is_active
     /\ IF principal.type = "admin" THEN SearchMounts[i].owner = principal.id
        ELSE SearchMounts[i].id \in principal.permitted}}

\* C10 as stated: searchFiles calls driver.search only on active mounts the calling
\* principal may access, and no result comes from a mount outside that set
C10_OnlyAccessibleMounts ==
  (fr # Idle /\ fr.status = "ok") =>
    /\ fr.invoked \subseteq AccessibleTo(fr.call.principal)
    /\ \A i \in 1..Len(fr.result.results) :
         fr.result.results[i].mount \in AccessibleTo(fr.call.principal)

-----------------------------------------------------------------------------
(* Claims about concurrent listing and mutation, checked under ConcSpec *)

\* C8 as stated: once a listDirectory(d) and a concurrently succeeding mutation inside d
\* have both returned, the cache holds no listing of d that was read from storage
\* before the mutation
C8_NoStaleListing ==
  (cc.lpc = "done" /\ cc.mpc = "done" /\ cc.mstatus = "ok" /\ ListedKey \in DOMAIN dirCache)
    => ~cc.listedBeforeWrite

-----------------------------------------------------------------------------
(* Claims about the driver pool, checked under PoolSpec *)

\* the pool holds a driver for the config that was not built from the row as it is stored now
StaleDriver(id) ==
  /\ PoolKey(id) \in DOMAIN driverPool
  /\ (id \notin DOMAIN s3Configs \/ driverPool[PoolKey(id)] # s3Configs[id])

\* C11 as stated: after an update or a delete of S3 config id has returned success, and
\* until the next change of the config begins, the driver pool holds no driver built from
\* the previous version of that config, whatever data-path requests ran in between
C11_NoStaleDriver ==
  (cc.admin.pc = "idle" /\ last.op \in {"updateS3Config", "deleteS3Config"} /\ last.status = "ok")
    => ~StaleDriver(last.id)

-----------------------------------------------------------------------------
(* Claims about batch copies, checked under CopySpec *)

\* the items of the last batch copy that ended in a failure, by position
FailingItems == {i \in 1..Len(fr.ends) : fr.ends[i] \in {"empty", "thrown", "failed"}}

\* the position in failed of the entry of the failing item i
FailedRank(i) == Cardinality({j \in FailingItems : j <= i})

DirectoryCopyAlone ==
  /\ fr.op = "batchCopyItems"
  /\ fr.items = <<[sourcePath |-> <<"/", "m", "/", "a", "/">>, targetPath |-> <<"/", "m", "/", "b">>,
                   skipExisting |-> TRUE]>>
  /\ "ATOMIC" \in fc.caps
  /\ {k \in DOMAIN fr.before : StartsWith(k, <<"a", "/">>)} = {<<"a", "/", "x">>}

\* C13 as stated: copying a directory that holds exactly one file, with skipExisting, answers
\* {success: 1, skipped: 0, failed: []}, and the same copy again {success: 0, skipped: 1, failed: []}
C13_DirectoryCopyCounts ==
  DirectoryCopyAlone =>
    /\ fr.result.failed = <<>>
    /\ IF <<"b", "/", "x">> \in DOMAIN fr.before
       THEN fr.result.success = 0 /\ fr.result.skipped = 1
       ELSE fr.result.success = 1 /\ fr.result.skipped = 0

-----------------------------------------------------------------------------
(* Claims about direct uploads, checked under UploadSpec *)

\* the S3 prefix of the directory an upload to path p goes into
UploadDirKey(p) == normalizeS3SubPath(findMountPointByPath(Mounts, p).subPath, S3Config, TRUE)

\* the upload goes into a directory of a mount that has no placeholder and no key under it
UploadParentMissing(p) ==
  /\ findMountPointByPath(Mounts, p).error = "none"
  /\ UploadDirKey(p) # <<>>
  /\ \A k \in DOMAIN bucket : ~StartsWith(k, UploadDirKey(p))

\* C14: a direct uploadFile whose target parent directory does not exist fails with
\* Conflict, and writes no object, inserts no file record and changes no cache entry
C14_ConflictWithoutParent ==
  [][(last'.op = "uploadFile" /\ UploadParentMissing(last'.path))
       => (last'.status = "Conflict" /\ bucket' = bucket /\ files' = files /\ dirCache' = dirCache)]_vars

\* an upload into a missing directory has answered Conflict while the cache held a listing
C14_Witness ==
  /\ last.op = "uploadFile"
  /\ last.status = "Conflict"
  /\ UploadParentMissing(last.path)
  /\ dirCache # EmptyMap

\* C15 as stated: uploadFile of a file whose name is in the EXECUTABLE group fails with
\* Forbidden and leaves no object at its key
C15_ExecutableRejected ==
  (last.op = "uploadFile" /\ MimeGroupOf(last.file.name) = "EXECUTABLE")
    => (last.status = "Forbidden" /\ last.key \notin DOMAIN bucket)

-----------------------------------------------------------------------------
(* Claims about directory removal, checked under PageSpec *)

\* the prefix deleteDirectory scans for the directory path p
ScanPrefix(p) ==
  IF EndsWith(UploadDirKey(p), <<"/">>) THEN UploadDirKey(p) ELSE UploadDirKey(p) \o <<"/">>

\* the keys stored under the prefix of p
KeysUnder(b, p) == {k \in DOMAIN b : StartsWith(k, ScanPrefix(p))}

\* C16: removeItem on a directory, whatever the page size of the listing, answers NotFound
\* exactly when no key lies under the directory prefix, and then changes nothing in storage;
\* otherwise it succeeds, no key under the prefix remains and every other key is kept
C16_RemovesWholePrefix ==
  [][(last'.op = "removeItem" /\ last' # last) =>
       /\ (last'.status = "NotFound") <=> (KeysUnder(bucket, last'.path) = {})
       /\ last'.status = "NotFound" => bucket' = bucket
       /\ last'.status # "NotFound" =>
            /\ last'.status = "ok"
            /\ KeysUnder(bucket', last'.path) = {}
            /\ bucket' = [k \in (DOMAIN bucket) \ KeysUnder(bucket, last'.path) |-> bucket[k]]]_vars

\* a directory of three keys has been removed with pages of one key, the other keys kept
C16_Witness ==
  /\ last.op = "removeItem"
  /\ last.status = "ok"
  /\ last.pageSize = 1
  /\ Cardinality(last.removed) = 3
  /\ bucket # EmptyMap

-----------------------------------------------------------------------------
(* Claims about getFileInfo, checked under InfoSpec *)

\* the prefix key + "/" of p, a key that already ends with "/" being its own prefix
InfoPrefix(p) ==
  IF EndsWith(FileKeyOf(p), <<"/">>) THEN FileKeyOf(p) ELSE FileKeyOf(p) \o <<"/">>

\* no object at the key of p and no key under the prefix
NothingAt(b, p) ==
  /\ FileKeyOf(p) \notin DOMAIN b
  /\ \A k \in DOMAIN b : ~StartsWith(k, InfoPrefix(p))

\* C17 as stated: getFileInfo(p) fails with NotFound if and only if no object exists at
\* the key of p and no key exists under the prefix key + "/"; when the key is absent but a
\* key exists under the prefix, p is reported as a directory of size 0
C17_NotFoundLaw ==
  last.op = "getFileInfo" =>
    /\ (last.result.status = "NotFound") <=> NothingAt(bucket, last.path)
    /\ (/\ FileKeyOf(last.path) \notin DOMAIN bucket
        /\ ~NothingAt(bucket, last.path))
         => /\ last.result.status = "ok"
            /\ last.result.isDirectory
            /\ last.result.size = 0

-----------------------------------------------------------------------------
(* Claims about virtual listings, checked under VirtualSpec *)

\* the asked path is a proper ancestor of a mount of the principal
AncestorOfMount ==
  \E i \in 1..Len(rq.mounts) :
    /\ StartsWith(rq.mounts[i].mount_path \o <<"/">>, AskedPath)
    /\ rq.mounts[i].mount_path \o <<"/">> # AskedPath

\* C18 as stated: listDirectory on a path under no mount returns a virtual listing only
\* when the path is a proper ancestor of a mount of the principal; on a path that is
\* neither under a mount nor an ancestor of one it fails with NotFound
C18_VirtualOnlyAboveMounts ==
  (rs # Idle /\ Prefixing = {}) =>
    /\ (rs.status = "ok" /\ rs.isVirtual) => AncestorOfMount
    /\ ~AncestorOfMount => rs.status = "NotFound"

-----------------------------------------------------------------------------
(* Claims about searchFiles, checked under SearchSpec *)

\* the cache key of a recorded call
CallKey(call) ==
  SearchCacheKey(call.query, [scope |-> call.scope, mountId |-> call.mountId], call.principal)

\* a call the validation must refuse
InvalidCall(call) ==
  \/ Len(call.query) < 2
  \/ call.limit < 1 \/ call.limit > 200
  \/ call.offset < 0
  \/ call.scope \notin {"global", "mount", "directory"}

\* C19: searchFiles fails with BadRequest for a query shorter than 2 characters, a limit
\* outside 1..200, a negative offset or a scope outside {global, mount, directory}; the
\* failed call is not answered from the SearchCache, leaves the cache as it was and
\* calls no driver
C19_InvalidSearchRejected ==
  [][(fr' # fr /\ fr'.op = "searchFiles" /\ InvalidCall(fr'.call)) =>
       /\ fr'.status = "BadRequest"
       /\ ~fr'.cacheHit
       /\ fr'.invoked = {}
       /\ searchCache' = searchCache]_vars

\* a call with limit 201 is refused although the cache holds a result under its key
C19_Witness ==
  /\ fr.op = "searchFiles"
  /\ fr.status = "BadRequest"
  /\ fr.call.limit = 201
  /\ CallKey(fr.call) \in DOMAIN searchCache

\* C20: a successful searchFiles that finds no entry under its key stores its result
\* exactly when the merged result set is not empty; one that finds an entry (the same
\* query of the same principal before the TTL has passed) returns the stored result and
\* calls no driver
C20_CacheWriteAndHit ==
  [][(fr' # fr /\ fr'.op = "searchFiles" /\ fr'.status = "ok") =>
       IF CallKey(fr'.call) \in DOMAIN searchCache
       THEN /\ fr'.cacheHit
            /\ fr'.invoked = {}
            /\ fr'.result = searchCache[CallKey(fr'.call)]
            /\ searchCache' = searchCache
       ELSE /\ ~fr'.cacheHit
            /\ (CallKey(fr'.call) \in DOMAIN searchCache') <=> (fr'.result.total > 0)
            /\ fr'.result.total > 0 => searchCache'[CallKey(fr'.call)] = fr'.result
            /\ \A k \in DOMAIN searchCache : k \in DOMAIN searchCache' /\ searchCache'[k] = searchCache[k]]_vars

\* a query is answered from the cache with its two hits, no driver called
C20_Witness ==
  /\ fr.op = "searchFiles"
  /\ fr.status = "ok"
  /\ fr.cacheHit
  /\ fr.invoked = {}
  /\ fr.result.total = 2
  /\ fr.result = searchCache[CallKey(fr.call)]

\* the mounts of a call whose driver was built and whose search returned
SucceededMounts(call) ==
  {m \in {"m1", "m2", "m3"} :
     /\ \E i \in 1..Len(SearchMounts) : SearchMounts[i].id = m /\ SearchMounts[i].is_active
     /\ (call.scope \in {"mount", "directory"} /\ call.mountId # "none") => m = call.mountId
     /\ m \in fc.readers
     /\ m \notin fc.noDriver \cup fc.searchFails}

\* C21: a searchFiles call that reaches the fan-out succeeds whichever mounts fail in
\* getDriver or in driver.search, and returns the hits of exactly the mounts that
\* succeeded, merged, sorted and paginated
C21_FailuresAreContained ==
  [][(fr' # fr /\ fr'.op = "searchFiles" /\ ~InvalidCall(fr'.call) /\ Len(Trim(fr'.call.query)) >= 2
        /\ CallKey(fr'.call) \notin DOMAIN searchCache
        /\ ~(fr'.call.scope \in {"mount", "directory"} /\ fr'.call.mountId = "m3")) =>
       LET merged == sortSearchResults(UNION {DriverSearch(fr'.call.query, m) : m \in SucceededMounts(fr'.call)},
                                       fr'.call.query)
       IN  /\ fr'.status = "ok"
           /\ fr'.result.total = Len(merged)
           /\ fr'.result.results = Slice(merged, fr'.call.offset, fr'.call.offset + fr'.call.limit)]_vars

\* the search of m2 throws and the call still returns the hit of m1
C21_Witness ==
  /\ fr.op = "searchFiles" /\ fr.status = "ok" /\ ~fr.cacheHit
  /\ fc.searchFails = {"m2"} /\ fc.noDriver = {}
  /\ fr.call.scope = "global"
  /\ fr.invoked = {"m1", "m2"}
  /\ fr.result.total = 1
  /\ Len(fr.result.results) = 1
  /\ fr.result.results[1].mount = "m1"

-----------------------------------------------------------------------------
(* Claims about the best-effort side effects and presigned URLs, checked under EffectSpec *)

\* what the recorded call does to status, storage and cache when no side effect fails
PlainOutcome(l) ==
  CASE l.op = "listDirectory"   -> listDirectoryWith(bucket, dirCache, files, l.path, NoFailure)
    [] l.op = "getFileInfo"     -> getFileInfoWith(bucket, dirCache, files, l.path, NoFailure)
    [] l.op = "downloadFile"    -> downloadFileWith(bucket, dirCache, files, l.path, NoFailure)
    [] l.op = "createDirectory" -> createDirectory(bucket, dirCache, files, l.path)
    [] l.op = "uploadFile"      -> uploadFile(bucket, dirCache, files, l.path, CHOOSE u \in OneUpload : TRUE)
    [] l.op = "removeItem"      -> removeItem(bucket, dirCache, files, l.path, DefaultMaxKeys)
    [] l.op = "renameItem"      -> renameItem(bucket, dirCache, files, l.path, l.newPath)

C23_AsStated ==
  (last.op = "getFilePresignedUrl" /\ EndsWith(last.path, <<"/">>)) =>
    /\ last.status = "BadRequest"
    /\ last.url = <<>>
    /\ last.lastUsed = "none"

\* C23, amended: getFilePresignedUrl on a path ending with "/" always fails, generates no
\* URL and does not update the mount's last-used time; the failure is BadRequest whenever
\* the path resolves to a mount whose storage config is stored
C23_DirectoryRefused ==
  [][(last' # last /\ last'.op = "getFilePresignedUrl" /\ EndsWith(last'.path, <<"/">>)) =>
       /\ last'.status # "ok"
       /\ last'.url = <<>>
       /\ last'.lastUsed = "none"
       /\ (/\ findMountPointByPath(Mounts, last'.path).error = "none"
           /\ Mount1.storage_config_id \in DOMAIN s3Configs)
            => last'.status = "BadRequest"]_vars

\* a directory of the mount is refused with BadRequest while files get their URL
C23_Witness ==
  /\ last.op = "getFilePresignedUrl"
  /\ last.path = NestedDir
  /\ last.status = "BadRequest"
  /\ last.url = <<>> /\ last.lastUsed = "none"
  /\ "c1" \in DOMAIN s3Configs

-----------------------------------------------------------------------------
(* Claims about renameItem, checked under RenameSpec *)

\* the two paths are of different kinds, or they resolve to different mounts
RenameMismatch(oldPath, newPath) ==
  \/ EndsWith(oldPath, <<"/">>) # EndsWith(newPath, <<"/">>)
  \/ /\ findMountPointByPath(Mounts, oldPath).error = "none"
     /\ findMountPointByPath(Mounts, newPath).error = "none"
     /\ findMountPointByPath(Mounts, oldPath).mount.id # findMountPointByPath(Mounts, newPath).mount.id

\* C24: a renameItem whose paths are of different kinds or resolve to different mounts
\* fails with BadRequest and leaves every stored object and every cache entry unchanged
C24_MismatchRejected ==
  [][(cc.pc = "idle" /\ last'.op = "renameItem" /\ RenameMismatch(last'.path, last'.newPath)) =>
       /\ last'.status = "BadRequest"
       /\ bucket' = bucket
       /\ dirCache' = dirCache
       /\ cc'.pc = "idle"]_vars

\* a file rename across the two mounts is refused while a listing is cached and kept
C24_Witness ==
  /\ last.op = "renameItem" /\ last.status = "BadRequest"
  /\ last.path = <<"/", "m", "/", "x">> /\ last.newPath = <<"/", "n", "/", "x">>
  /\ cc.pc = "idle"
  /\ <<"x">> \in DOMAIN bucket
  /\ dirCache # EmptyMap

\* the object first stored under key k is stored under key at
HoldsContent(b, at, k) == at \in DOMAIN b /\ b[at] = Stored(k)

\* C26: during a rename and after it ended, whether it succeeded or failed, the content
\* of every object being moved is stored under its old key or under its new key
C26_ContentUnderOldOrNew ==
  \A k \in DOMAIN cc.origin :
    HoldsContent(bucket, k, k) \/ HoldsContent(bucket, RenameTargetKey(cc, k), k)

\* C27: after a successful directory rename no key with the old prefix remains and the
\* keys under the new prefix are exactly the moved ones, each with its previous content
C27_DirectoryMovedExactly ==
  (cc.pc = "idle" /\ cc.isDirectory /\ last.op = "renameItem" /\ last.status = "ok") =>
    /\ S3List(bucket, cc.s3OldPath) = {}
    /\ S3List(bucket, cc.s3NewPath) = {RenameTargetKey(cc, k) : k \in DOMAIN cc.origin}
    /\ \A k \in DOMAIN cc.origin : HoldsContent(bucket, RenameTargetKey(cc, k), k)

-----------------------------------------------------------------------------
(* Claims about the Workers entry point, checked under FetchSpec *)

\* the pathnames of FetchPathnames that are exactly /dav or start with /dav/
DavPathnames ==
  {<<"/", "d", "a", "v">>, <<"/", "d", "a", "v", "/">>, <<"/", "d", "a", "v", "/", "x">>}

WebDAVHeaderNames ==
  {"Allow", "Public", "DAV", "MS-Author-Via", "Microsoft-Server-WebDAV-Extensions", "X-MSDAVEXT"}

\* the response carries the six WebDAV headers and every header of the application
\* keeps its value
CarriesWebDAVHeaders(l) ==
  /\ l.response.kind = "response"
  /\ WebDAVHeaderNames \subseteq DOMAIN l.response.headers
  /\ l.app.kind = "response" =>
       \A k \in DOMAIN l.app.headers :
         k \in DOMAIN l.response.headers /\ l.response.headers[k] = l.app.headers[k]

\* on another path the answer of the application is handed on as it is
HandedOn(l) ==
  l.app.kind = "response" => l.response = l.app

\* C25 as stated: every response for /dav or /dav/... carries the six WebDAV headers with
\* the application's own headers kept, and other paths get no WebDAV header added
C25_AsStated ==
  last.op = "fetch" =>
    IF last.pathname \in DavPathnames THEN CarriesWebDAVHeaders(last) ELSE HandedOn(last)

\* C25, amended: every response the application produced for /dav or /dav/... carries the
\* six WebDAV headers with the application's own headers kept; when the application throws,
\* the answer is a 500 with Content-Type only; other paths get no WebDAV header added
C25_WebDAVHeadersOnAppResponses ==
  last.op = "fetch" =>
    IF last.pathname \in DavPathnames
    THEN IF last.app.kind = "response"
         THEN CarriesWebDAVHeaders(last) /\ last.response.status = last.app.status
         ELSE /\ last.response.kind = "response" /\ last.response.status = 500
              /\ DOMAIN last.response.headers = {"Content-Type"}
    ELSE HandedOn(last)

\* the application answered /dav/x with its own Allow header: the six headers are there,
\* Allow is the application's
C25_Witness ==
  /\ last.op = "fetch" /\ last.pathname = <<"/", "d", "a", "v", "/", "x">>
  /\ last.app.kind = "response" /\ DOMAIN last.app.headers = {"Allow"}
  /\ last.response.headers["Allow"] = "app"
  /\ last.response.headers["DAV"] = "1,2"
  /\ WebDAVHeaderNames \subseteq DOMAIN last.response.headers

-----------------------------------------------------------------------------
(* Claims about the batch methods of the facade, checked under FacadeSpec and CopySpec *)

\* C28: batchRemoveItems resolves a driver for paths[0] only and hands the whole list to
\* that driver in one call, also when the paths belong to different mounts; for an empty
\* or missing list it returns {success: 0, failed: []} and resolves nothing
C28_FirstPathDriverGetsAll ==
  fr.op = "batchRemoveItems" =>
    IF ~fr.given \/ fr.paths = <<>>
    THEN /\ fr.returned /\ fr.result = [success |-> 0, failed |-> <<>>]
         /\ fr.resolved = <<>> /\ fr.calls = <<>>
    ELSE /\ fr.resolved = <<fr.paths[1]>>
         /\ Len(fr.calls) = (IF fr.status = "ok" THEN 1 ELSE 0)
         /\ \A i \in DOMAIN fr.calls :
              /\ fr.calls[i].paths = fr.paths
              /\ fr.calls[i].mountId = findMountPointByPath(Mounts, fr.paths[1]).mount.id

\* a path of /m followed by a path of /n: only /m/x is resolved and the driver of m1 gets
\* both paths
C28_Witness ==
  /\ fr.op = "batchRemoveItems" /\ fr.given /\ fr.status = "ok"
  /\ fr.paths = <<<<"/", "m", "/", "x">>, <<"/", "n", "/", "x">>>>
  /\ findMountPointByPath(Mounts, fr.paths[2]).mount.id = "m2"
  /\ fr.resolved = <<<<"/", "m", "/", "x">>>>
  /\ Len(fr.calls) = 1 /\ fr.calls[1].mountId = "m1" /\ fr.calls[1].paths = fr.paths

\* C29: for an item whose source ends with "/" the target passed to copyItem ends with
\* "/" (one slash appended when missing), a file target is passed as it is, and the
\* skipExisting passed is the item's own value when defined and true otherwise
C29_TargetAndSkipExistingPassed ==
  fr.op = "batchCopyItems" =>
    \A i \in DOMAIN fr.trail :
      fr.trail[i].call.made =>
        /\ fr.trail[i].call.targetPath =
             (IF EndsWith(fr.items[i].sourcePath, <<"/">>) /\ ~EndsWith(fr.items[i].targetPath, <<"/">>)
              THEN fr.items[i].targetPath \o <<"/">> ELSE fr.items[i].targetPath)
        /\ EndsWith(fr.items[i].sourcePath, <<"/">>) => EndsWith(fr.trail[i].call.targetPath, <<"/">>)
        /\ fr.trail[i].call.skipExisting =
             (IF "skipExisting" \in DOMAIN fr.items[i] THEN fr.items[i].skipExisting ELSE TRUE)

\* a directory copied to /m/b is passed /m/b/, a file item without skipExisting is passed
\* its target unchanged with skipExisting true
C29_Witness ==
  /\ fr.op = "batchCopyItems" /\ Len(fr.items) = 2
  /\ fr.items[1].sourcePath = <<"/", "m", "/", "a", "/">> /\ fr.items[1].targetPath = <<"/", "m", "/", "b">>
  /\ fr.trail[1].call.made /\ fr.trail[1].call.targetPath = <<"/", "m", "/", "b", "/">>
  /\ "skipExisting" \notin DOMAIN fr.items[2]
  /\ fr.items[2].sourcePath = <<"/", "m", "/", "x">>
  /\ fr.trail[2].call.made /\ fr.trail[2].call.targetPath = <<"/", "m", "/", "y">>
  /\ fr.trail[2].call.skipExisting = TRUE

\* the aggregate before item i of the last batchCopyItems
AggregateBefore(i) ==
  IF i = 1
  THEN [success |-> 0, skipped |-> 0, failed |-> <<>>, details |-> <<>>, crossStorageResults |-> <<>>]
  ELSE fr.trail[i - 1].result

\* C30: an item whose copy result has crossStorage set is appended to crossStorageResults
\* and changes none of success, skipped, failed and details; hasCrossStorageOperations is
\* true if and only if crossStorageResults is not empty
C30_CrossStorageKeptApart ==
  fr.op = "batchCopyItems" =>
    /\ \A i \in DOMAIN fr.trail :
         IF fr.ends[i] = "cross"
         THEN /\ Len(fr.trail[i].result.crossStorageResults) = Len(AggregateBefore(i).crossStorageResults) + 1
              /\ fr.trail[i].result.success = AggregateBefore(i).success
              /\ fr.trail[i].result.skipped = AggregateBefore(i).skipped
              /\ fr.trail[i].result.failed = AggregateBefore(i).failed
              /\ fr.trail[i].result.details = AggregateBefore(i).details
         ELSE fr.trail[i].result.crossStorageResults = AggregateBefore(i).crossStorageResults
    /\ ("hasCrossStorageOperations" \in DOMAIN fr.result /\ fr.result.hasCrossStorageOperations)
         <=> (fr.result.crossStorageResults # <<>>)

\* a copy to a mount of another storage configuration, then a copy inside the mount: one
\* cross-storage result, one success, the flag set
C30_Witness ==
  /\ fr.op = "batchCopyItems" /\ fr.ends = <<"cross", "copied">>
  /\ fr.items[1].targetPath = <<"/", "o", "/", "y">>
  /\ Len(fr.result.crossStorageResults) = 1
  /\ fr.result.success = 1 /\ fr.result.skipped = 0 /\ fr.result.failed = <<>>
  /\ fr.result.hasCrossStorageOperations

-----------------------------------------------------------------------------
(* Claims about the paginated loops, checked under RenameSpec *)

-----------------------------------------------------------------------------
(* Claims about concurrent requests in one Workers process, checked under WorkerSpec *)

\* C32: in every interleaving checkAndInitDatabase is invoked at most once, and never
\* again once it has been invoked, also when that invocation failed
C32_CheckedAtMostOnce ==
  /\ cc.initCalls <= 1
  /\ cc.initCalls = 1 <=> cc.isDbInitialized
  /\ cc.initState = "none" <=> cc.initCalls = 0

\* the only check failed, two requests arrived while it ran, all three are answered
C32_Witness ==
  /\ cc.initState = "failed" /\ cc.initCalls = 1
  /\ \A r \in 1..MaxRequests : rq[r].pc = "answered"
  /\ Cardinality({r \in 1..MaxRequests : rq[r].dbCheck = "skipped"}) = 2

\* C33: no request is inside app.fetch while the database check started by the first
\* request is still running
C33_NoDispatchBeforeCheckDone ==
  \A r \in 1..MaxRequests : rq[r].pc = "inApp" => cc.initState # "running"

-----------------------------------------------------------------------------
(* Claims about concurrent createDirectory calls, checked under MkdirSpec *)

\* C34: of two concurrent createDirectory calls on the same path at most one
\* returns success, and the other returns Conflict
C34_AtMostOneCreates ==
  \A i, j \in 1..MaxCallers :
    (i # j /\ rq[i].path = rq[j].path /\ rq[i].pc = "returned" /\ rq[j].pc = "returned"
       /\ rq[i].status = "ok")
      => rq[j].status = "Conflict"

-----------------------------------------------------------------------------
(* Claims about cached listings below a removed or renamed directory, checked under CacheSpec *)

\* C35: after removeItem or renameItem of a directory d has succeeded, the
\* DirectoryCache holds no entry for d or for a directory below d
C35_NoEntryAtOrBelow ==
  (last.op \in {"removeItem", "renameItem"} /\ last.status = "ok" /\ EndsWith(last.path, <<"/">>))
    => \A k \in DOMAIN dirCache :
         ~(k[1] = Mount1.id /\ StartsWith(k[2], findMountPointByPath(Mounts, last.path).subPath))

-----------------------------------------------------------------------------
(* Claims about failed direct uploads, checked under RecordSpec *)

\* C36: a direct uploadFile that returns an error has left the bucket, the files
\* table and the DirectoryCache as they were before the call
C36_ErrorLeavesNothing ==
  (last.op = "uploadFile" /\ last.status # "ok")
    => /\ bucket = last.before.bucket
       /\ files = last.before.files
       /\ dirCache = last.before.cache

====
